---- MODULE Spec2Model ----
(***************************************************************************)
(* Model of the input-processing service: the progress ledger             *)
(* (StatusRepository / InputRepository behind InputStorageService), the   *)
(* pipeline orchestrator (process_input_pipeline) and the language and    *)
(* translation resolution it calls.                                       *)
(***************************************************************************)
EXTENDS FiniteSets, Integers, Sequences, TLC

\* ---------------------------------------------------------------- bounds
NumRecords == 2
MaxTime == 2
TicksPerSecond == 2
MaxCalls == 2

Records == 1..NumRecords
\* the longest list of phase entries whose overall progress is computed
MaxPhases == 4

\* ------------------------------------------------- enumerations (schemas)
VALIDATION == "validation"
LANGUAGE_DETECTION == "language_detection"
TRANSLATION == "translation"
PREPROCESSING == "preprocessing"
ProcessingPhase == {VALIDATION, LANGUAGE_DETECTION, TRANSLATION, PREPROCESSING}

PENDING == "pending"
PROCESSING == "processing"
COMPLETED == "completed"
FAILED == "failed"
SKIPPED == "skipped"
ProcessingStatus == {PENDING, PROCESSING, COMPLETED, FAILED, SKIPPED}

\* Python None for a string column, a timestamp/integer column, a dict column
NoneS == "None"
NoneT == -1
NoData == [kind |-> "None"]

\* Python truthiness of an Optional[str] / Optional[dict] argument
TruthyStr(s) == s # NoneS /\ s # ""
TruthyDict(d) == d.kind # "None" /\ d.kind # "empty"

VARIABLES
  rec,       \* ContentRecord (InputRecord) table: record id -> row
  ledger,    \* PhaseStatus (ProcessingStatus) table: a set of rows
  now,       \* the wall clock, in ticks
  pc,        \* position of each record's pipeline run
  loc,       \* local variables of each record's pipeline run
  trace,     \* collaborator calls and ledger writes of each run, in order (history)
  cache,     \* the result cache (redis): set of entries [key, value, ttl]
  config,    \* settings: which provider credentials are configured
  hist,      \* per (record, phase): the upsertPhase calls that returned (history)
  inflight,  \* the StatusRepository.update calls of concurrent sessions: caller -> call
  resolution \* the last resolution call made on its own: its inputs and what it did

vars == <<rec, ledger, now, pc, loc, trace, cache, config, hist, inflight, resolution>>

\* ------------------------------------------------------- progress ledger

\* primary key of a new row: unique, never reused (rows are never deleted)
NewRowId(led, input_record_id) ==
  <<input_record_id, 1 + Cardinality({row \in led : row.input_record_id = input_record_id})>>

\* StatusRepository.create: insert a row with started_at = now
StatusRepositoryCreate(led, input_record_id, phase, status, progress_percentage, phase_data, error_message, error_details, t) ==
  led \cup {[id |-> NewRowId(led, input_record_id),
             input_record_id |-> input_record_id,
             phase |-> phase,
             status |-> status,
             progress_percentage |-> progress_percentage,
             phase_data |-> phase_data,
             error_message |-> error_message,
             error_details |-> error_details,
             started_at |-> t,
             completed_at |-> NoneT,
             duration_seconds |-> NoneT]}

\* int((t2 - started_at).total_seconds())
DurationSeconds(started_at, t2) == (t2 - started_at) \div TicksPerSecond

\* the UPDATE ... WHERE id = processing_status.id of StatusRepository.update;
\* t1 is the clock reading stored as completed_at, t2 the later reading the
\* duration is computed from
UpdateExisting(led, ps, status, progress_percentage, phase_data, error_message, error_details, t1, t2) ==
  {IF row.id # ps.id THEN row
   ELSE [row EXCEPT
           !.status = status,
           !.progress_percentage = progress_percentage,
           !.phase_data = IF TruthyDict(phase_data) THEN phase_data ELSE @,
           !.error_message = IF TruthyStr(error_message) THEN error_message ELSE @,
           !.error_details = IF TruthyDict(error_details) THEN error_details ELSE @,
           !.completed_at = IF status = COMPLETED THEN t1 ELSE @,
           !.duration_seconds = IF status = COMPLETED /\ ps.started_at # NoneT
                                THEN DurationSeconds(ps.started_at, t2) ELSE @]
   : row \in led}

\* variant of the existence check that forgets the record: it selects by phase only
SelectByPhaseOnly(led, input_id, phase) ==
  {row \in led : row.phase = phase}

\* the rows the existence check of StatusRepository.update selects
SelectByPhase(led, input_id, phase) ==
  {row \in led : row.input_record_id = input_id /\ row.phase = phase}

\* variant of StatusRepository.update that inserts without looking for the row
StatusRepositoryUpdateInsertOnly(led, input_id, phase, status, progress_percentage, phase_data, error_message, error_details, dbOk, t1, t2) ==
  IF ~dbOk
  THEN [raised |-> TRUE, ledger |-> led]
  ELSE [raised |-> FALSE,
        ledger |-> StatusRepositoryCreate(led, input_id, phase, status,
                                          progress_percentage, phase_data,
                                          error_message, error_details, t1)]

\* StatusRepository.update: [raised, ledger]; dbOk = FALSE is a database error
\* (execute / commit raises, the transaction is rolled back)
StatusRepositoryUpdate(led, input_id, phase, status, progress_percentage, phase_data, error_message, error_details, dbOk, t1, t2) ==
  LET found == SelectByPhase(led, input_id, phase) IN
  IF ~dbOk \/ Cardinality(found) > 1
  THEN [raised |-> TRUE, ledger |-> led]
  ELSE IF found # {}
  THEN [raised |-> FALSE,
        ledger |-> UpdateExisting(led, CHOOSE row \in found : TRUE, status,
                                  progress_percentage, phase_data,
                                  error_message, error_details, t1, t2)]
  ELSE [raised |-> FALSE,
        ledger |-> StatusRepositoryCreate(led, input_id, phase, status,
                                          progress_percentage, phase_data,
                                          error_message, error_details, t1)]

\* InputRepository.update_status: status, updated_at, current_phase when given,
\* processed_at only when status = "completed"; t1, t2 successive clock readings
InputRepositoryUpdateStatus(row, status, current_phase, t1, t2) ==
  [row EXCEPT
     !.status = status,
     !.updated_at = t1,
     !.current_phase = IF TruthyStr(current_phase) THEN current_phase ELSE @,
     !.processed_at = IF status = COMPLETED THEN t2 ELSE @]

\* variant of update_language_detection that stores the language only
InputRepositoryUpdateLanguageOnly(row, detected_language, language_confidence, t) ==
  [row EXCEPT !.detected_language = detected_language, !.updated_at = t]

\* InputRepository.update_language_detection (confidence is stored as str)
InputRepositoryUpdateLanguageDetection(row, detected_language, language_confidence, t) ==
  [row EXCEPT
     !.detected_language = detected_language,
     !.language_confidence = [str |-> language_confidence],
     !.updated_at = t]

\* InputRepository.update_translation_result
InputRepositoryUpdateTranslationResult(row, translation_result, t) ==
  [row EXCEPT !.translation_result = translation_result, !.updated_at = t]

\* InputRepository.create: the record as intake leaves it
InputRepositoryCreate(raw_input, t) ==
  [raw_input |-> raw_input,
   status |-> PENDING,
   current_phase |-> VALIDATION,
   detected_language |-> NoneS,
   language_confidence |-> [str |-> NoneT],
   translation_result |-> NoData,
   processed_at |-> NoneT,
   created_at |-> t,
   updated_at |-> NoneT]

\* ---------------------------------------------------------- result cache

\* settings (app/core/config.py); confidences are in hundredths
CACHE_TTL_TRANSLATION == 3600
CACHE_TTL_LANGUAGE_DETECTION == 1800
LANGUAGE_DETECTION_CONFIDENCE_THRESHOLD == 10
DEFAULT_TARGET_LANGUAGE == "en"
TRANSLATION_CONFIDENCE_THRESHOLD == 80

\* input texts and the languages providers may report
RawText(name) == [src |-> name, via |-> "raw"]
Texts == {RawText("t1"), RawText("t2")}
Langs == {"en", "hi"}

\* hash(text) of the cache keys (no two of the modelled texts collide)
Hash(text) == [hash |-> text]

\* variant of parse_raw that loses the confidence of the stored result
ParseRawLossy(cached) == [cached.of EXCEPT !.confidence = 0]

\* result.json() and Result.parse_raw(cached)
Json(result) == [kind |-> "json", of |-> result]
ParseRaw(cached) == cached.of

\* variant of CacheService.get that never finds an entry
CacheServiceGetNothing(c, key, ok) == NoData

\* variant of CacheService.get that answers from a stale copy on a redis error
CacheServiceGetStale(c, key, ok) ==
  IF \E e \in c : e.key = key
  THEN (CHOOSE e \in c : e.key = key).value
  ELSE NoData

\* CacheService.get: the stored value, None on a miss or a redis error
CacheServiceGet(c, key, ok) ==
  IF ok /\ \E e \in c : e.key = key
  THEN (CHOOSE e \in c : e.key = key).value
  ELSE NoData

\* variant of CacheService.set that stores nothing
CacheServiceSetDropped(c, key, value, ttl, ok) == c

\* CacheService.set with a ttl (setex); a redis error is swallowed
CacheServiceSet(c, key, value, ttl, ok) ==
  IF ok
  THEN {e \in c : e.key # key} \cup {[key |-> key, value |-> value, ttl |-> ttl]}
  ELSE c

\* a collaborator call in a run's trace
Call(name) == [op |-> "call", name |-> name]
ProviderCall(name, provider) == [op |-> "call", name |-> name, provider |-> provider]

\* ------------------------------------------------------ language detection

\* what one detection method does on a call: raise, or report (language, confidence)
Raises == [raised |-> TRUE]
Detected(language, confidence) ==
  [raised |-> FALSE, language |-> language, confidence |-> confidence]
\* _detect_with_langdetect: confidence is clamped to [0.1, 1.0]
LangdetectOutcomes == {Raises} \cup {Detected(l, 80) : l \in Langs}
\* _detect_with_langid: confidence is langid's raw score
LangidOutcomes == {Raises} \cup {Detected(l, c) : l \in Langs, c \in {-30, 90}}
\* _detect_with_google_translate: confidence as the API reports it
GoogleDetectOutcomes == {Raises} \cup {Detected(l, c) : l \in Langs, c \in {5, 80}}

\* the LanguageDetectionResult a method builds (all modelled languages are allowed)
LanguageDetectionResult(o) ==
  [language |-> o.language,
   confidence |-> o.confidence,
   is_reliable |-> o.confidence >= LANGUAGE_DETECTION_CONFIDENCE_THRESHOLD]

\* variant of the hardcoded default that is marked reliable
DefaultMarkedReliable == [language |-> "en", confidence |-> 50, is_reliable |-> TRUE]

\* the hardcoded default of detect_language
DefaultLanguageResult == [language |-> "en", confidence |-> 50, is_reliable |-> FALSE]

\* variant of detect_language that stores the hardcoded default in the cache
detect_language_caching_default(text, c, cfg, getOk, setOk, ld, li, gg) ==
  LET cache_key == <<"lang_detect", Hash(text)>>
      cached == CacheServiceGet(c, cache_key, getOk)
      Accept(o, ev) ==
        [result |-> LanguageDetectionResult(o),
         cache |-> CacheServiceSet(c, cache_key, Json(LanguageDetectionResult(o)),
                                   CACHE_TTL_LANGUAGE_DETECTION, setOk),
         events |-> ev \o <<Call("ld_cache_set")>>]
      ev1 == <<Call("ld_cache_get"), Call("langdetect")>>
      ev2 == ev1 \o <<Call("langid")>>
      ev3 == IF cfg.google_api_key THEN ev2 \o <<Call("google_detect")>> ELSE ev2
  IN
  IF TruthyDict(cached)
  THEN [result |-> ParseRaw(cached), cache |-> c, events |-> <<Call("ld_cache_get")>>]
  ELSE IF ~ld.raised /\ ld.confidence >= LANGUAGE_DETECTION_CONFIDENCE_THRESHOLD
  THEN Accept(ld, ev1)
  ELSE IF ~li.raised /\ li.confidence >= LANGUAGE_DETECTION_CONFIDENCE_THRESHOLD
  THEN Accept(li, ev2)
  ELSE IF cfg.google_api_key /\ ~gg.raised
  THEN Accept(gg, ev3)
  ELSE [result |-> DefaultLanguageResult,
        cache |-> CacheServiceSet(c, cache_key, Json(DefaultLanguageResult),
                                  CACHE_TTL_LANGUAGE_DETECTION, setOk),
        events |-> ev3 \o <<Call("ld_cache_set")>>]

\* LanguageDetectionService.detect_language: [result, cache, events]
detect_language(text, c, cfg, getOk, setOk, ld, li, gg) ==
  LET cache_key == <<"lang_detect", Hash(text)>>
      cached == CacheServiceGet(c, cache_key, getOk)
      Accept(o, ev) ==
        [result |-> LanguageDetectionResult(o),
         cache |-> CacheServiceSet(c, cache_key, Json(LanguageDetectionResult(o)),
                                   CACHE_TTL_LANGUAGE_DETECTION, setOk),
         events |-> ev \o <<Call("ld_cache_set")>>]
      ev1 == <<Call("ld_cache_get"), Call("langdetect")>>
      ev2 == ev1 \o <<Call("langid")>>
      ev3 == IF cfg.google_api_key THEN ev2 \o <<Call("google_detect")>> ELSE ev2
  IN
  IF TruthyDict(cached)
  THEN [result |-> ParseRaw(cached), cache |-> c, events |-> <<Call("ld_cache_get")>>]
  ELSE IF ~ld.raised /\ ld.confidence >= LANGUAGE_DETECTION_CONFIDENCE_THRESHOLD
  THEN Accept(ld, ev1)
  ELSE IF ~li.raised /\ li.confidence >= LANGUAGE_DETECTION_CONFIDENCE_THRESHOLD
  THEN Accept(li, ev2)
  ELSE IF cfg.google_api_key /\ ~gg.raised
  THEN Accept(gg, ev3)
  ELSE [result |-> DefaultLanguageResult, cache |-> c, events |-> ev3]

\* ------------------------------------------------------------- translation

\* variant of the provider chain with the fallback placed first
ProvidersFallbackFirst == <<"nllb_200", "google_translate">>

\* TranslationStrategy._initialize_providers: the provider chain, in priority order
Providers == <<"google_translate", "nllb_200">>

\* variant of the availability check that reports every provider available
AlwaysAvailable(provider, cfg) == TRUE

\* provider.is_available(): the provider's credentials are configured
IsAvailable(provider, cfg) ==
  IF provider = "google_translate" THEN cfg.google_api_key ELSE cfg.nllb

\* what provider.translate does on a call: raise, or return with a confidence
Translated(confidence) == [raised |-> FALSE, confidence |-> confidence]
\* GoogleTranslationProvider.translate: confidence from the API, default 0.9
GoogleTranslateOutcomes == {Raises, Translated(90), Translated(50)}
\* NLLBTranslator.translate: confidence is always 0.75
NLLBOutcomes == {Raises, Translated(75)}

\* the outcomes the translator providers have in one call
ProviderOutcomes(go, nl) ==
  [provider \in {"google_translate", "nllb_200"} |->
     IF provider = "google_translate" THEN go ELSE nl]

\* the TranslationResult a provider builds
TranslationResult(text, source_language, target_language, provider, o) ==
  [original_text |-> text,
   translated_text |-> [src |-> text.src, via |-> provider],
   source_language |-> source_language,
   target_language |-> target_language,
   confidence |-> o.confidence,
   method |-> provider]

\* variant of translate_with_fallback that gives up when a provider's attempt raises
RECURSIVE translate_until_failure(_, _, _, _, _, _, _)
translate_until_failure(i, text, source_language, target_language, cfg, out, ev) ==
  IF i > Len(Providers)
  THEN [raised |-> TRUE, result |-> NoData, events |-> ev]
  ELSE LET provider == Providers[i]
           ev1 == ev \o <<ProviderCall("is_available", provider)>>
           ev2 == ev1 \o <<ProviderCall("translate", provider)>>
       IN IF ~IsAvailable(provider, cfg)
          THEN translate_until_failure(i + 1, text, source_language,
                                       target_language, cfg, out, ev1)
          ELSE IF out[provider].raised
          THEN [raised |-> TRUE, result |-> NoData, events |-> ev2]
          ELSE [raised |-> FALSE,
                result |-> TranslationResult(text, source_language, target_language,
                                             provider, out[provider]),
                events |-> ev2]

\* variant of translate_with_fallback that echoes the text back when every
\* provider was unavailable or raised
RECURSIVE translate_or_echo(_, _, _, _, _, _, _)
translate_or_echo(i, text, source_language, target_language, cfg, out, ev) ==
  IF i > Len(Providers)
  THEN [raised |-> FALSE,
        result |-> TranslationResult(text, source_language, target_language,
                                     "none", Translated(0)),
        events |-> ev]
  ELSE LET provider == Providers[i]
           ev1 == ev \o <<ProviderCall("is_available", provider)>>
           ev2 == ev1 \o <<ProviderCall("translate", provider)>>
       IN IF ~IsAvailable(provider, cfg)
          THEN translate_or_echo(i + 1, text, source_language,
                                 target_language, cfg, out, ev1)
          ELSE IF out[provider].raised
          THEN translate_or_echo(i + 1, text, source_language,
                                 target_language, cfg, out, ev2)
          ELSE [raised |-> FALSE,
                result |-> TranslationResult(text, source_language, target_language,
                                             provider, out[provider]),
                events |-> ev2]

\* TranslationStrategy.translate_with_fallback from provider i on:
\* [raised, result, events]
RECURSIVE translate_with_fallback(_, _, _, _, _, _, _)
translate_with_fallback(i, text, source_language, target_language, cfg, out, ev) ==
  IF i > Len(Providers)
  THEN [raised |-> TRUE, result |-> NoData, events |-> ev]
  ELSE LET provider == Providers[i]
           ev1 == ev \o <<ProviderCall("is_available", provider)>>
           ev2 == ev1 \o <<ProviderCall("translate", provider)>>
       IN IF ~IsAvailable(provider, cfg)
          THEN translate_with_fallback(i + 1, text, source_language,
                                       target_language, cfg, out, ev1)
          ELSE IF out[provider].raised
          THEN translate_with_fallback(i + 1, text, source_language,
                                       target_language, cfg, out, ev2)
          ELSE [raised |-> FALSE,
                result |-> TranslationResult(text, source_language, target_language,
                                             provider, out[provider]),
                events |-> ev2]

\* TranslationServiceFacade.translate_text: [raised, result, cache, events]
translate_text(text, source_language, target_language, c, cfg, getOk, setOk, out) ==
  LET cache_key == <<"translation", Hash(text), source_language, target_language>>
      cached == CacheServiceGet(c, cache_key, getOk)
      r == translate_with_fallback(1, text, source_language, target_language,
                                   cfg, out, <<Call("tr_cache_get")>>)
  IN
  IF TruthyDict(cached)
  THEN [raised |-> FALSE, result |-> ParseRaw(cached), cache |-> c,
        events |-> <<Call("tr_cache_get")>>]
  ELSE IF r.raised
  THEN [raised |-> TRUE, result |-> NoData, cache |-> c, events |-> r.events]
  ELSE [raised |-> FALSE, result |-> r.result,
        cache |-> CacheServiceSet(c, cache_key, Json(r.result),
                                  CACHE_TTL_TRANSLATION, setOk),
        events |-> r.events \o <<Call("tr_cache_set")>>]

\* ------------------------------------------------- pipeline orchestrator

\* exceptions as the handler sees them: type(e).__name__ and str(e)
DatabaseError(what) ==
  [type |-> "DatabaseError", message |-> "Failed to update", what |-> what]
TranslationError ==
  [type |-> "TranslationError", message |-> "Translation failed", what |-> NoneS]
ServiceError == [type |-> "Exception", message |-> "Service error", what |-> NoneS]
NoExc == [type |-> NoneS, message |-> NoneS, what |-> NoneS]

\* locals of process_input_pipeline before the try block
InitLocals(text) ==
  [text |-> text,
   validation_result |-> NoData,
   language_result |-> NoData,
   translation_result |-> NoData,
   processed_text |-> NoData,
   exc |-> NoExc]

\* whether a database call of the pipeline succeeds: any call may fail, unless
\* the environment considered has a database that stays up
DbOutcomes == IF config.db_faults THEN BOOLEAN ELSE {TRUE}

\* a clock reading taken later in the same handler
LaterReadings == {t \in {now, now + 1} : t <= MaxTime}

\* a ledger write in a run's trace
UpsertEvent(phase, status, progress_percentage, ok) ==
  [op |-> "upsert", phase |-> phase, status |-> status,
   progress_percentage |-> progress_percentage, ok |-> ok]
RecordEvent(what, ok) == [op |-> "record", what |-> what, ok |-> ok]

\* history of the upsertPhase calls that returned, per (record, phase)
NoHist == [n |-> 0, first |-> NoneT, last |-> NoneT, statuses |-> {}]
HistAfter(h, key, status, t, raised) ==
  [h EXCEPT ![key] = IF raised THEN @
                     ELSE [n |-> @.n + 1,
                           first |-> IF @.n = 0 THEN t ELSE @.first,
                           last |-> t,
                           statuses |-> @.statuses \cup {status}]]

\* InputStorageService.update_processing_status: the effect of one call on the
\* ledger, the clock and the call history; res is what StatusRepository.update did
ApplyUpdate(r, phase, status, res, t2) ==
  /\ ledger' = res.ledger
  /\ now' = t2
  /\ hist' = HistAfter(hist, <<r, phase>>, status, now, res.raised)

\* InputStorageService.update_processing_status issued by record r's run at
\* pc = from: on success the run moves to pc = to, on a DatabaseError to onError
UpdateProcessingStatus(r, from, phase, status, progress_percentage, phase_data, error_message, error_details, to, onError) ==
  /\ pc[r] = from
  /\ \E dbOk \in DbOutcomes, t2 \in LaterReadings :
       LET res == StatusRepositoryUpdate(ledger, r, phase, status, progress_percentage,
                                         phase_data, error_message, error_details,
                                         dbOk, now, t2)
       IN /\ ApplyUpdate(r, phase, status, res, t2)
          /\ trace' = [trace EXCEPT ![r] = Append(@, UpsertEvent(phase, status,
                                              progress_percentage, ~res.raised))]
          /\ pc' = [pc EXCEPT ![r] = IF res.raised THEN onError ELSE to]
          /\ loc' = IF res.raised /\ onError = "h_write"
                    THEN [loc EXCEPT ![r].exc =
                            DatabaseError("processing status")]
                    ELSE loc
  /\ UNCHANGED <<rec, cache, config, inflight, resolution>>

\* the row an InputStorageService write leaves in the ContentRecord table
RecordWrite(what, row, l, status, current_phase, t1, t2) ==
  CASE what = "language detection results" ->
         InputRepositoryUpdateLanguageDetection(row, l.language_result.language,
                                                l.language_result.confidence, t1)
    [] what = "translation results" ->
         InputRepositoryUpdateTranslationResult(
           row, [kind |-> "translation_result", of |-> l.translation_result], t1)
    [] what = "input record status" ->
         InputRepositoryUpdateStatus(row, status, current_phase, t1, t2)

\* a write to the ContentRecord issued by record r's run at pc = from
UpdateInputRecord(r, from, what, status, current_phase, to, onError) ==
  /\ pc[r] = from
  /\ \E dbOk \in DbOutcomes, t2 \in LaterReadings :
       /\ rec' = IF dbOk
                 THEN [rec EXCEPT ![r] = RecordWrite(what, @, loc[r], status,
                                                     current_phase, now, t2)]
                 ELSE rec
       /\ now' = t2
       /\ trace' = [trace EXCEPT ![r] = Append(@, RecordEvent(what, dbOk))]
       /\ pc' = [pc EXCEPT ![r] = IF dbOk THEN to ELSE onError]
       /\ loc' = IF ~dbOk /\ onError = "h_write"
                 THEN [loc EXCEPT ![r].exc = DatabaseError(what)]
                 ELSE loc
  /\ UNCHANGED <<ledger, cache, config, hist, inflight, resolution>>

\* pipeline.py 38-49: the session and the redis connection are obtained
\* outside the try block; get_redis may raise
StartPipeline(r) ==
  /\ pc[r] = "start"
  /\ \E redisOk \in BOOLEAN :
       pc' = [pc EXCEPT ![r] = IF redisOk THEN "v_begin" ELSE "escaped"]
  /\ loc' = [loc EXCEPT ![r] = InitLocals(rec[r].raw_input)]
  /\ UNCHANGED <<rec, ledger, now, trace, cache, config, hist, inflight, resolution>>

\* pipeline.py 54-56
ValidationBegin(r) ==
  UpdateProcessingStatus(r, "v_begin", VALIDATION, PROCESSING, 10,
                         NoData, NoneS, NoData, "validate", "h_write")

\* pipeline.py 58-62: the validator's verdict, or an exception out of it
Validate(r) ==
  /\ pc[r] = "validate"
  /\ \E verdict \in {"valid", "invalid", "raise"} :
       /\ pc' = [pc EXCEPT ![r] = CASE verdict = "valid" -> "v_done"
                                    [] verdict = "invalid" -> "v_failed"
                                    [] OTHER -> "h_write"]
       /\ loc' = IF verdict = "raise" THEN [loc EXCEPT ![r].exc = ServiceError]
                 ELSE [loc EXCEPT ![r].validation_result =
                         [kind |-> "validation_result", is_valid |-> verdict = "valid"]]
  /\ trace' = [trace EXCEPT ![r] = Append(@, Call("validate_input"))]
  /\ UNCHANGED <<rec, ledger, now, cache, config, hist, inflight, resolution>>

\* variant of the invalid branch that goes on to language detection
ValidationFailedContinues(r) ==
  UpdateProcessingStatus(r, "v_failed", VALIDATION, FAILED, 0, NoData,
                         "Validation failed", loc[r].validation_result,
                         "ld_begin", "h_write")

\* pipeline.py 62-68: invalid input: failed row, then return
ValidationFailed(r) ==
  UpdateProcessingStatus(r, "v_failed", VALIDATION, FAILED, 0, NoData,
                         "Validation failed", loc[r].validation_result,
                         "done", "h_write")

\* variant that completes validation with the progress of the next phase's start
ValidationCompletedAt30(r) ==
  UpdateProcessingStatus(r, "v_done", VALIDATION, COMPLETED, 30,
                         NoData, NoneS, NoData, "ld_begin", "h_write")

\* pipeline.py 70-72
ValidationCompleted(r) ==
  UpdateProcessingStatus(r, "v_done", VALIDATION, COMPLETED, 25,
                         NoData, NoneS, NoData, "ld_begin", "h_write")

\* pipeline.py 76-78
LanguageDetectionBegin(r) ==
  UpdateProcessingStatus(r, "ld_begin", LANGUAGE_DETECTION, PROCESSING, 30,
                         NoData, NoneS, NoData, "detect", "h_write")

\* pipeline.py 80
DetectLanguage(r) ==
  /\ pc[r] = "detect"
  /\ \E getOk \in BOOLEAN, setOk \in BOOLEAN, ld \in LangdetectOutcomes,
        li \in LangidOutcomes, gg \in GoogleDetectOutcomes :
       LET res == detect_language(loc[r].text, cache, config, getOk, setOk, ld, li, gg)
       IN /\ cache' = res.cache
          /\ loc' = [loc EXCEPT ![r].language_result = res.result]
          /\ trace' = [trace EXCEPT ![r] = @ \o res.events]
  /\ pc' = [pc EXCEPT ![r] = "ld_store"]
  /\ UNCHANGED <<rec, ledger, now, config, hist, inflight, resolution>>

\* pipeline.py 84-88: InputStorageService.update_language_detection_results
StoreLanguageResult(r) ==
  UpdateInputRecord(r, "ld_store", "language detection results", NoneS, NoneS,
                    "ld_done", "h_write")

\* variant that leaves the language_detection row in processing
LanguageDetectionLeftProcessing(r) ==
  UpdateProcessingStatus(r, "ld_done", LANGUAGE_DETECTION, PROCESSING, 50,
                         [kind |-> "language_result", of |-> loc[r].language_result],
                         NoneS, NoData, "translation", "h_write")

\* pipeline.py 90-93
LanguageDetectionCompleted(r) ==
  UpdateProcessingStatus(r, "ld_done", LANGUAGE_DETECTION, COMPLETED, 50,
                         [kind |-> "language_result", of |-> loc[r].language_result],
                         NoneS, NoData, "translation", "h_write")

\* pipeline.py 97-103: the detected language is not "en"
TranslationBegin(r) ==
  /\ pc[r] = "translation"
  /\ loc[r].language_result.language # "en"
  /\ UpdateProcessingStatus(r, "translation", TRANSLATION, PROCESSING, 60,
                            NoData, NoneS, NoData, "translate", "h_write")

\* pipeline.py 105-109: translate_text(text, language, "en")
Translate(r) ==
  /\ pc[r] = "translate"
  /\ \E getOk \in BOOLEAN, setOk \in BOOLEAN, go \in GoogleTranslateOutcomes,
        nl \in NLLBOutcomes :
       LET out == ProviderOutcomes(go, nl)
           res == translate_text(loc[r].text, loc[r].language_result.language, "en",
                                 cache, config, getOk, setOk, out)
       IN /\ cache' = res.cache
          /\ trace' = [trace EXCEPT ![r] = @ \o res.events]
          /\ pc' = [pc EXCEPT ![r] = IF res.raised THEN "h_write" ELSE "tr_store"]
          /\ loc' = IF res.raised
                    THEN [loc EXCEPT ![r].exc = TranslationError]
                    ELSE [loc EXCEPT ![r].translation_result = res.result,
                                     ![r].processed_text = res.result.translated_text]
  /\ UNCHANGED <<rec, ledger, now, config, hist, inflight, resolution>>

\* pipeline.py 112-115: InputStorageService.update_translation_results
StoreTranslationResult(r) ==
  UpdateInputRecord(r, "tr_store", "translation results", NoneS, NoneS,
                    "tr_done", "h_write")

\* pipeline.py 121-124
TranslationCompleted(r) ==
  UpdateProcessingStatus(r, "tr_done", TRANSLATION, COMPLETED, 75,
                         [kind |-> "translation_result", of |-> loc[r].translation_result],
                         NoneS, NoData, "pp_begin", "h_write")

\* variant of the English branch that writes the translation row completed
TranslationSkippedAsCompleted(r) ==
  /\ pc[r] = "translation"
  /\ loc[r].language_result.language = "en"
  /\ UpdateProcessingStatus(r, "translation", TRANSLATION, COMPLETED, 75,
                            NoData, NoneS, NoData, "pp_begin", "h_write")

\* pipeline.py 125-130: the detected language is "en"
TranslationSkipped(r) ==
  /\ pc[r] = "translation"
  /\ loc[r].language_result.language = "en"
  /\ UpdateProcessingStatus(r, "translation", TRANSLATION, SKIPPED, 75,
                            [kind |-> "reason", of |-> "Text is already in English"],
                            NoneS, NoData, "pp_begin", "h_write")

\* pipeline.py 134-136
PreprocessingBegin(r) ==
  UpdateProcessingStatus(r, "pp_begin", PREPROCESSING, PROCESSING, 80,
                         NoData, NoneS, NoData, "preprocess", "h_write")

\* the text handed to the normalizer: processed_text of pipeline.py 96 / 109
ProcessedText(l) ==
  IF l.processed_text = NoData THEN l.text ELSE l.processed_text

\* pipeline.py 138-140: preprocess_text(processed_text), or an exception out of it
Preprocess(r) ==
  /\ pc[r] = "preprocess"
  /\ \E ok \in BOOLEAN :
       /\ pc' = [pc EXCEPT ![r] = IF ok THEN "pp_done" ELSE "h_write"]
       /\ loc' = IF ok THEN loc ELSE [loc EXCEPT ![r].exc = ServiceError]
  /\ trace' = [trace EXCEPT ![r] =
                 Append(@, [op |-> "call", name |-> "preprocess_text",
                            text |-> ProcessedText(loc[r])])]
  /\ UNCHANGED <<rec, ledger, now, cache, config, hist, inflight, resolution>>

\* variant that closes preprocessing at 90 percent
PreprocessingCompletedAt90(r) ==
  UpdateProcessingStatus(r, "pp_done", PREPROCESSING, COMPLETED, 90,
                         [kind |-> "preprocessing_result", of |-> ProcessedText(loc[r])],
                         NoneS, NoData, "finalize", "h_write")

\* pipeline.py 143-146
PreprocessingCompleted(r) ==
  UpdateProcessingStatus(r, "pp_done", PREPROCESSING, COMPLETED, 100,
                         [kind |-> "preprocessing_result", of |-> ProcessedText(loc[r])],
                         NoneS, NoData, "finalize", "h_write")

\* pipeline.py 149-151: update_input_record_status("completed", "preprocessing_complete")
FinalizeCompleted(r) ==
  UpdateInputRecord(r, "finalize", "input record status", COMPLETED,
                    "preprocessing_complete", "done", "h_write")

\* pipeline.py 155-166: the handler's failure write, always on the validation row;
\* an exception out of it is logged and swallowed (171-174)
HandlerFailureWrite(r) ==
  UpdateProcessingStatus(r, "h_write", VALIDATION, FAILED, 0, NoData,
                         loc[r].exc.message,
                         [kind |-> "exception_type", of |-> loc[r].exc.type],
                         "h_finalize", "done")

\* variant: the handler finalizes the record as completed
HandlerFinalizeCompleted(r) ==
  UpdateInputRecord(r, "h_finalize", "input record status", COMPLETED,
                    "pipeline_error", "done", "done")

\* pipeline.py 168-170: update_input_record_status("failed", "pipeline_error")
HandlerFinalizeFailed(r) ==
  UpdateInputRecord(r, "h_finalize", "input record status", FAILED,
                    "pipeline_error", "done", "done")

\* time passes
Tick ==
  /\ now < MaxTime
  /\ now' = now + 1
  /\ UNCHANGED <<rec, ledger, pc, loc, trace, cache, config, hist, inflight, resolution>>

\* the arguments callers pass to upsertPhase in the ledger specification
CallArgs ==
  {[status |-> PROCESSING, progress_percentage |-> 10, phase_data |-> NoData,
    error_message |-> NoneS, error_details |-> NoData],
   [status |-> COMPLETED, progress_percentage |-> 100, phase_data |-> NoData,
    error_message |-> NoneS, error_details |-> NoData],
   [status |-> COMPLETED, progress_percentage |-> 100, phase_data |-> [kind |-> "data"],
    error_message |-> NoneS, error_details |-> NoData],
   [status |-> SKIPPED, progress_percentage |-> 75, phase_data |-> [kind |-> "reason"],
    error_message |-> NoneS, error_details |-> NoData],
   [status |-> FAILED, progress_percentage |-> 0, phase_data |-> NoData,
    error_message |-> "boom", error_details |-> [kind |-> "details"]]}

\* the number of upsertPhase calls that have returned so far
RECURSIVE SumCalls(_, _)
SumCalls(h, keys) ==
  IF keys = {} THEN 0
  ELSE LET key == CHOOSE k \in keys : TRUE
       IN h[key].n + SumCalls(h, keys \ {key})
CallsReturned == SumCalls(hist, DOMAIN hist)

\* a caller other than the pipeline issues one update_processing_status call
\* (calls are issued one after another)
UpsertPhase ==
  /\ CallsReturned < MaxCalls
  /\ \E r \in {1, NumRecords}, phase \in {VALIDATION, TRANSLATION}, a \in CallArgs,
        dbOk \in BOOLEAN, t2 \in LaterReadings :
       ApplyUpdate(r, phase, a.status,
                   StatusRepositoryUpdate(ledger, r, phase, a.status,
                                          a.progress_percentage, a.phase_data,
                                          a.error_message, a.error_details,
                                          dbOk, now, t2),
                   t2)
  /\ UNCHANGED <<rec, pc, loc, trace, cache, config, inflight, resolution>>

\* ------------------------------------------------------ resolution calls

\* no resolution call has been made
NoResolution == [kind |-> "None"]

\* a caller resolves a translation: one translate_text call
ResolveTranslation ==
  /\ resolution = NoResolution
  /\ \E text \in Texts, source_language \in Langs, getOk \in BOOLEAN, setOk \in BOOLEAN,
        go \in GoogleTranslateOutcomes, nl \in NLLBOutcomes :
       LET out == ProviderOutcomes(go, nl)
           res == translate_text(text, source_language, DEFAULT_TARGET_LANGUAGE,
                                 cache, config, getOk, setOk, out)
       IN /\ cache' = res.cache
          /\ resolution' = [kind |-> "translation", text |-> text,
                            source_language |-> source_language,
                            target_language |-> DEFAULT_TARGET_LANGUAGE,
                            before |-> cache, getOk |-> getOk, setOk |-> setOk,
                            out |-> out, raised |-> res.raised, result |-> res.result,
                            events |-> res.events]
  /\ UNCHANGED <<rec, ledger, now, pc, loc, trace, config, hist, inflight>>

\* a caller resolves a language: one detect_language call
ResolveLanguage ==
  /\ resolution = NoResolution
  /\ \E text \in Texts, getOk \in BOOLEAN, setOk \in BOOLEAN, ld \in LangdetectOutcomes,
        li \in LangidOutcomes, gg \in GoogleDetectOutcomes :
       LET res == detect_language(text, cache, config, getOk, setOk, ld, li, gg)
       IN /\ cache' = res.cache
          /\ resolution' = [kind |-> "language", text |-> text,
                            before |-> cache, getOk |-> getOk, setOk |-> setOk,
                            out |-> [langdetect |-> ld, langid |-> li, google |-> gg],
                            raised |-> FALSE, result |-> res.result,
                            events |-> res.events]
  /\ UNCHANGED <<rec, ledger, now, pc, loc, trace, config, hist, inflight>>

\* ------------------------------------------------- concurrent ledger calls

\* two sessions that call StatusRepository.update concurrently
Callers == {"A", "B"}

\* a session that has not called yet
NoCall == [pc |-> "idle", phase |-> NoneS, args |-> NoData, found |-> {}, raised |-> NoneS]

\* a session calls update_processing_status for record 1
BeginUpdate(c) ==
  /\ inflight[c].pc = "idle"
  /\ \E phase \in {VALIDATION, TRANSLATION}, a \in CallArgs :
       inflight' = [inflight EXCEPT ![c] = [NoCall EXCEPT !.pc = "select",
                                                          !.phase = phase,
                                                          !.args = a]]
  /\ UNCHANGED <<rec, ledger, now, pc, loc, trace, cache, config, hist, resolution>>

\* status_repository.py 80-85: the existence check; the session suspends on the
\* query and resumes with the rows committed so far
SelectExisting(c) ==
  /\ inflight[c].pc = "select"
  /\ \E dbOk \in BOOLEAN :
       LET found == SelectByPhase(ledger, 1, inflight[c].phase) IN
       inflight' = [inflight EXCEPT ![c] =
                      IF ~dbOk THEN [@ EXCEPT !.pc = "done", !.raised = "DatabaseError"]
                      ELSE IF Cardinality(found) > 1
                      THEN [@ EXCEPT !.pc = "done", !.raised = "MultipleResultsFound"]
                      ELSE [@ EXCEPT !.pc = "write", !.found = found]]
  /\ UNCHANGED <<rec, ledger, now, pc, loc, trace, cache, config, hist, resolution>>

\* status_repository.py 87-130: the UPDATE of the row found, or the INSERT of
\* StatusRepository.create when none was found, and the commit; a uniqueness
\* constraint on (input_record_id, phase), if the table has one, rejects the
\* INSERT when another session has committed a row for the pair meanwhile
WriteRow(c) ==
  /\ inflight[c].pc = "write"
  /\ \E dbOk \in BOOLEAN, t2 \in LaterReadings :
       LET call == inflight[c]
           a == call.args
           conflict == config.unique_phase /\ SelectByPhase(ledger, 1, call.phase) # {}
           raised == IF ~dbOk THEN "DatabaseError"
                     ELSE IF call.found = {} /\ conflict THEN "IntegrityError"
                     ELSE NoneS
       IN /\ ledger' =
               IF raised # NoneS THEN ledger
               ELSE IF call.found = {}
               THEN StatusRepositoryCreate(ledger, 1, call.phase, a.status,
                                           a.progress_percentage, a.phase_data,
                                           a.error_message, a.error_details, now)
               ELSE UpdateExisting(ledger, CHOOSE row \in call.found : TRUE, a.status,
                                   a.progress_percentage, a.phase_data,
                                   a.error_message, a.error_details, now, t2)
          /\ now' = t2
          /\ inflight' = [inflight EXCEPT ![c] = [@ EXCEPT !.pc = "done",
                                                          !.raised = raised]]
  /\ UNCHANGED <<rec, pc, loc, trace, cache, config, hist, resolution>>

\* ------------------------------------------------------------ specification

Configs == [google_api_key : BOOLEAN, nllb : BOOLEAN, db_faults : {TRUE}]

\* entries earlier resolutions may have left in the cache
PriorEntries ==
  {[key |-> <<"lang_detect", Hash(text)>>,
    value |-> Json(LanguageDetectionResult(Detected(l, 80))),
    ttl |-> CACHE_TTL_LANGUAGE_DETECTION] : text \in Texts, l \in Langs}
  \cup
  {[key |-> <<"translation", Hash(text), "hi", "en">>,
    value |-> Json(TranslationResult(text, "hi", "en", "google_translate",
                                     Translated(90))),
    ttl |-> CACHE_TTL_TRANSLATION] : text \in Texts}
PriorCaches ==
  {c \in SUBSET PriorEntries :
     /\ \A e1, e2 \in c : e1.key = e2.key => e1 = e2
     /\ \A e \in c : e.key[2] = Hash(RawText("t1"))}

\* the text submitted with record r: record 1 resubmits a text seen before
\* (the cache may hold results for it), the others submit a new one
SubmittedText(r) == IF r = 1 THEN RawText("t1") ELSE RawText("t2")

\* the tables after intake: every record created, nothing in the ledger
InitTables ==
  /\ rec = [r \in Records |-> InputRepositoryCreate(SubmittedText(r), now)]
  /\ ledger = {}
  /\ hist = [key \in Records \X ProcessingPhase |-> NoHist]

\* one record's pipeline run has been scheduled; the clock stands at the
\* model's horizon, so the clock readings of the run coincide
Init ==
  /\ now = MaxTime
  /\ InitTables
  /\ \E r \in Records : pc = [x \in Records |-> IF x = r THEN "start" ELSE "idle"]
  /\ loc = [r \in Records |-> InitLocals(rec[r].raw_input)]
  /\ trace = [r \in Records |-> <<>>]
  /\ cache \in PriorCaches
  /\ config \in Configs
  /\ inflight = [c \in Callers |-> NoCall]
  /\ resolution = NoResolution

Step(r) ==
  \/ StartPipeline(r)
  \/ ValidationBegin(r)
  \/ Validate(r)
  \/ ValidationFailed(r)
  \/ ValidationCompleted(r)
  \/ LanguageDetectionBegin(r)
  \/ DetectLanguage(r)
  \/ StoreLanguageResult(r)
  \/ LanguageDetectionCompleted(r)
  \/ TranslationBegin(r)
  \/ Translate(r)
  \/ StoreTranslationResult(r)
  \/ TranslationCompleted(r)
  \/ TranslationSkipped(r)
  \/ PreprocessingBegin(r)
  \/ Preprocess(r)
  \/ PreprocessingCompleted(r)
  \/ FinalizeCompleted(r)
  \/ HandlerFailureWrite(r)
  \/ HandlerFinalizeFailed(r)

Next == \E r \in Records : Step(r)

Spec == Init /\ [][Next]_vars

\* the ledger on its own: records exist, no pipeline runs, callers issue
\* upsertPhase calls one after another while time passes
LedgerInit ==
  /\ now = 0
  /\ InitTables
  /\ pc = [r \in Records |-> "idle"]
  /\ loc = [r \in Records |-> InitLocals(rec[r].raw_input)]
  /\ trace = [r \in Records |-> <<>>]
  /\ cache = {}
  /\ config = [google_api_key |-> FALSE, nllb |-> FALSE, db_faults |-> TRUE]
  /\ inflight = [c \in Callers |-> NoCall]
  /\ resolution = NoResolution

LedgerNext == UpsertPhase \/ Tick

SpecLedger == LedgerInit /\ [][LedgerNext]_vars

\* two sessions upsert rows of record 1 concurrently; whether the table carries
\* a uniqueness constraint on (input_record_id, phase) is not fixed by the
\* repository code, so both schemas are considered
ConcurrentInit ==
  /\ now = 0
  /\ InitTables
  /\ pc = [r \in Records |-> "idle"]
  /\ loc = [r \in Records |-> InitLocals(rec[r].raw_input)]
  /\ trace = [r \in Records |-> <<>>]
  /\ cache = {}
  /\ \E u \in BOOLEAN :
       config = [google_api_key |-> FALSE, nllb |-> FALSE, db_faults |-> TRUE,
                 unique_phase |-> u]
  /\ inflight = [c \in Callers |-> NoCall]
  /\ resolution = NoResolution

ConcurrentNext == \E c \in Callers : BeginUpdate(c) \/ SelectExisting(c) \/ WriteRow(c)

SpecConcurrent == ConcurrentInit /\ [][ConcurrentNext]_vars

\* the resolution engine on its own: any settings, a cache that earlier calls
\* may have filled, and one resolution call, of a language or of a translation
ResolveInit ==
  /\ now = 0
  /\ InitTables
  /\ pc = [r \in Records |-> "idle"]
  /\ loc = [r \in Records |-> InitLocals(rec[r].raw_input)]
  /\ trace = [r \in Records |-> <<>>]
  /\ cache \in PriorCaches
  /\ config \in Configs
  /\ inflight = [c \in Callers |-> NoCall]
  /\ resolution = NoResolution

ResolveNext == ResolveTranslation \/ ResolveLanguage

SpecResolve == ResolveInit /\ [][ResolveNext]_vars

\* the pipeline runs of two records have been scheduled and interleave at
\* their suspension points; the records carry different texts
TwoRunsInit ==
  /\ now = MaxTime
  /\ InitTables
  /\ pc = [r \in Records |-> IF r \in {1, NumRecords} THEN "start" ELSE "idle"]
  /\ loc = [r \in Records |-> InitLocals(rec[r].raw_input)]
  /\ trace = [r \in Records |-> <<>>]
  /\ cache = {}
  /\ config = [google_api_key |-> TRUE, nllb |-> FALSE, db_faults |-> FALSE]
  /\ inflight = [c \in Callers |-> NoCall]
  /\ resolution = NoResolution

SpecTwoRuns == TwoRunsInit /\ [][Next]_vars

\* ------------------------------------------------------ overall progress

\* the phase entries get_processing_status builds from a record's rows
ProgressValues == {0, 1, 10, 25, 50, 75, 99, 100}
PhaseEntry(v) == [progress_percentage |-> v]
PhaseLists ==
  UNION {[1..n -> {PhaseEntry(v) : v \in ProgressValues}] : n \in 0..MaxPhases}

\* sum(phase.get("progress_percentage", 0) for phase in phases)
RECURSIVE TotalProgress(_)
TotalProgress(phases) ==
  IF phases = <<>> THEN 0
  ELSE phases[1].progress_percentage + TotalProgress(Tail(phases))

Min(a, b) == IF a <= b THEN a ELSE b

\* variant of _calculate_overall_progress that rounds the mean up
calculate_overall_progress_ceil(phases) ==
  IF phases = <<>> THEN 0
  ELSE Min(100, (TotalProgress(phases) + Len(phases) - 1) \div Len(phases))

\* InputStorageService._calculate_overall_progress
calculate_overall_progress(phases) ==
  IF phases = <<>> THEN 0
  ELSE Min(100, TotalProgress(phases) \div Len(phases))

\* a caller computes the overall progress of a list of phase entries
CalculateOverallProgress ==
  /\ resolution = NoResolution
  /\ \E phases \in PhaseLists :
       resolution' = [kind |-> "overall_progress", phases |-> phases,
                      result |-> calculate_overall_progress(phases)]
  /\ UNCHANGED <<rec, ledger, now, pc, loc, trace, cache, config, hist, inflight>>

ProgressInit ==
  /\ now = 0
  /\ InitTables
  /\ pc = [r \in Records |-> "idle"]
  /\ loc = [r \in Records |-> InitLocals(rec[r].raw_input)]
  /\ trace = [r \in Records |-> <<>>]
  /\ cache = {}
  /\ config = [google_api_key |-> FALSE, nllb |-> FALSE, db_faults |-> TRUE]
  /\ inflight = [c \in Callers |-> NoCall]
  /\ resolution = NoResolution

SpecProgress == ProgressInit /\ [][CalculateOverallProgress]_vars

\* ------------------------------------------ concurrent resolution calls

\* the requests two sessions may make at the same time: a translation or a
\* detection of a text seen before
Requests ==
  {[kind |-> "translation", text |-> RawText("t1"), source_language |-> l,
    target_language |-> DEFAULT_TARGET_LANGUAGE] : l \in Langs}
  \cup {[kind |-> "language", text |-> RawText("t1"), source_language |-> NoneS,
         target_language |-> NoneS]}

\* the cache key of a request
CacheKey(req) ==
  IF req.kind = "translation"
  THEN <<"translation", Hash(req.text), req.source_language, req.target_language>>
  ELSE <<"lang_detect", Hash(req.text)>>

\* a call that has been made and is about to look the cache up
CallMade(req, c) ==
  [pc |-> "lookup", req |-> req, before |-> c, hit |-> FALSE, out |-> NoData,
   raised |-> FALSE, result |-> NoData]

\* the cache lookup of a call: a hit returns the parsed entry at once
RaceLookup(c) ==
  /\ inflight[c].pc = "lookup"
  /\ \E getOk \in BOOLEAN :
       LET cached == CacheServiceGet(cache, CacheKey(inflight[c].req), getOk)
       IN inflight' = [inflight EXCEPT ![c] =
            IF TruthyDict(cached)
            THEN [@ EXCEPT !.pc = "returned", !.hit = TRUE, !.result = ParseRaw(cached)]
            ELSE [@ EXCEPT !.pc = "resolve"]]
  /\ UNCHANGED <<rec, ledger, now, pc, loc, trace, cache, config, hist, resolution>>

\* the rest of a call whose lookup found nothing: the providers are tried and
\* an accepted result is written to the cache as it is now
RaceResolve(c) ==
  /\ inflight[c].pc = "resolve"
  /\ inflight[c].req.kind = "translation"
  /\ \E setOk \in BOOLEAN, go \in GoogleTranslateOutcomes, nl \in NLLBOutcomes :
       LET req == inflight[c].req
           out == ProviderOutcomes(go, nl)
           res == translate_text(req.text, req.source_language, req.target_language, cache, config, FALSE, setOk, out)
       IN /\ cache' = res.cache
          /\ inflight' = [inflight EXCEPT ![c] =
               [@ EXCEPT !.pc = IF res.raised THEN "raised" ELSE "returned",
                         !.out = out, !.raised = res.raised, !.result = res.result]]
  /\ UNCHANGED <<rec, ledger, now, pc, loc, trace, config, hist, resolution>>

RaceDetect(c) ==
  /\ inflight[c].pc = "resolve"
  /\ inflight[c].req.kind = "language"
  /\ \E setOk \in BOOLEAN, ld \in LangdetectOutcomes, li \in LangidOutcomes, gg \in GoogleDetectOutcomes :
       LET res == detect_language(inflight[c].req.text, cache, config, FALSE, setOk, ld, li, gg)
       IN /\ cache' = res.cache
          /\ inflight' = [inflight EXCEPT ![c] =
               [@ EXCEPT !.pc = "returned",
                         !.out = [langdetect |-> ld, langid |-> li, google |-> gg],
                         !.result = res.result]]
  /\ UNCHANGED <<rec, ledger, now, pc, loc, trace, config, hist, resolution>>

\* two sessions have made the same request at the same time
RaceInit ==
  /\ now = 0
  /\ InitTables
  /\ pc = [r \in Records |-> "idle"]
  /\ loc = [r \in Records |-> InitLocals(rec[r].raw_input)]
  /\ trace = [r \in Records |-> <<>>]
  /\ cache \in PriorCaches
  /\ config \in Configs
  /\ \E req \in Requests : inflight = [c \in Callers |-> CallMade(req, cache)]
  /\ resolution = NoResolution

RaceNext == \E c \in Callers : RaceLookup(c) \/ RaceResolve(c) \/ RaceDetect(c)

SpecRace == RaceInit /\ [][RaceNext]_vars

\* ------------------------------------------------------------------ claims

\* the ledger rows of record r, and those of one of its phases
RowsOf(r) == {row \in ledger : row.input_record_id = r}
PhaseRows(r, phase) == {row \in RowsOf(r) : row.phase = phase}

\* the run of record r has returned to its caller
Returned(r) == pc[r] = "done"

\* the validator reported record r's text invalid / valid
Invalid(r) == loc[r].validation_result # NoData /\ ~loc[r].validation_result.is_valid
Valid(r) == loc[r].validation_result # NoData /\ loc[r].validation_result.is_valid

\* positions of the trace of record r holding a ledger write / a collaborator call
UpsertsAt(r) == {i \in DOMAIN trace[r] : trace[r][i].op = "upsert"}
CallsAt(r) == {i \in DOMAIN trace[r] : trace[r][i].op = "call"}

\* C1: when a pipeline run has returned, the record's status is completed or
\* failed, never pending or processing
C1_ReturnedIsTerminal ==
  \A r \in Records : Returned(r) => rec[r].status \in {COMPLETED, FAILED}

\* the translation resolution of record r's run raised, and no ledger or record
\* write of the run failed
TranslationExhausted(r) ==
  /\ loc[r].exc = TranslationError
  /\ \A i \in DOMAIN trace[r] : trace[r][i].op \in {"upsert", "record"} => trace[r][i].ok

\* C2: when the detected language differs from the target and translation
\* resolution fails by exhaustion, the run records translation failed at 75 with
\* an error, runs the normalizer on the original text, records preprocessing
\* completed at 100 and finalizes the record as completed
C2_TranslationFailureDoesNotAbort ==
  \A r \in Records :
    (Returned(r) /\ TranslationExhausted(r)) =>
      /\ \E row \in PhaseRows(r, TRANSLATION) :
            /\ row.status = FAILED
            /\ row.progress_percentage = 75
            /\ TruthyStr(row.error_message)
      /\ \E i \in CallsAt(r) :
            /\ trace[r][i].name = "preprocess_text"
            /\ trace[r][i].text = loc[r].text
      /\ \E row \in PhaseRows(r, PREPROCESSING) :
            row.status = COMPLETED /\ row.progress_percentage = 100
      /\ rec[r].status = COMPLETED

\* the handler of record r's run has written its failure row
HandlerWrote(r) ==
  \E row \in PhaseRows(r, VALIDATION) :
    /\ row.status = FAILED
    /\ row.error_message = loc[r].exc.message
    /\ TruthyStr(row.error_message)
    /\ row.error_details = [kind |-> "exception_type", of |-> loc[r].exc.type]

\* C3: an exception out of a phase is caught, written as a failed row carrying
\* an error message and error details, and then the record is finalized as
\* failed; so a failed record always has a failed row with a non-empty message
C3_FailureIsFinalized ==
  \A r \in Records :
    /\ rec[r].status = FAILED =>
          \E row \in RowsOf(r) :
            /\ row.status = FAILED
            /\ TruthyStr(row.error_message)
            /\ TruthyDict(row.error_details)
    /\ (Returned(r) /\ loc[r].exc # NoExc) =>
          \E i \in DOMAIN trace[r] :
            /\ trace[r][i].op = "record"
            /\ trace[r][i].what = "input record status"
            /\ trace[r][i].ok => (rec[r].status = FAILED /\ HandlerWrote(r))

\* C4: when the validator reports the text invalid, the run writes validation
\* failed with progress 0 and the reasons as error, finalizes the record as
\* failed, and stops
C4_InvalidFinalizesFailed ==
  \A r \in Records :
    (Returned(r) /\ Invalid(r) /\ loc[r].exc = NoExc) =>
      /\ \E row \in PhaseRows(r, VALIDATION) :
            /\ row.status = FAILED
            /\ row.progress_percentage = 0
            /\ row.error_details = loc[r].validation_result
      /\ rec[r].status = FAILED

\* C5: when validation reports invalid, the run calls no language identifier,
\* translator, result cache or normalizer, and the record never gets a row for
\* language_detection, translation or preprocessing
C5_InvalidStopsEverything ==
  \A r \in Records :
    Invalid(r) =>
      /\ \A i \in CallsAt(r) : trace[r][i].name = "validate_input"
      /\ \A row \in RowsOf(r) : row.phase = VALIDATION
      /\ \A i \in UpsertsAt(r) : trace[r][i].phase = VALIDATION

\* a run whose text was reported invalid has returned
C5_Witness ==
  \E r \in Records :
    /\ Returned(r) /\ Invalid(r)
    /\ \E row \in PhaseRows(r, VALIDATION) : row.status = FAILED

\* the calls translate_text makes: cache access, availability checks, attempts
TranslatorCalls == {"tr_cache_get", "tr_cache_set", "is_available", "translate"}

\* the run of record r has got past the translation phase
PastTranslation(r) == pc[r] \in {"pp_begin", "preprocess", "pp_done", "finalize"}

\* C6: when the detected language equals the target language, the translation
\* phase is recorded as skipped at 75 with a reason in its phase data, and the
\* run makes no translator call (cache access, availability check, attempt)
C6_AutoSkip ==
  \A r \in Records :
    (loc[r].language_result # NoData
       /\ loc[r].language_result.language = DEFAULT_TARGET_LANGUAGE) =>
      /\ \A i \in CallsAt(r) : trace[r][i].name \notin TranslatorCalls
      /\ \A i \in UpsertsAt(r) :
            trace[r][i].phase = TRANSLATION =>
              trace[r][i].status = SKIPPED /\ trace[r][i].progress_percentage = 75
      /\ \A row \in PhaseRows(r, TRANSLATION) :
            /\ row.status = SKIPPED
            /\ row.progress_percentage = 75
            /\ row.phase_data.kind = "reason"
      /\ PastTranslation(r) => PhaseRows(r, TRANSLATION) # {}

\* a run detected the target language and recorded the skip
C6_Witness ==
  \E r \in Records :
    /\ loc[r].language_result # NoData
    /\ loc[r].language_result.language = DEFAULT_TARGET_LANGUAGE
    /\ \E row \in PhaseRows(r, TRANSLATION) : row.status = SKIPPED

\* (phase, status, progress) of the ledger rows of record r
Summary(r) ==
  {<<row.phase, row.status, row.progress_percentage>> : row \in RowsOf(r)}

\* record r's run returned after valid input with nothing raised
CleanRun(r) == Returned(r) /\ Valid(r) /\ loc[r].exc = NoExc

\* C7: in a run where validation passes and no collaborator or ledger write
\* fails, the final ledger holds exactly four rows: validation/completed/25,
\* language_detection/completed/50, preprocessing/completed/100 and
\* translation/skipped/75 when the detected language is the target language,
\* translation/completed/75 when it differs; the record status is completed
C7_EndToEnd ==
  \A r \in Records :
    CleanRun(r) =>
      /\ Cardinality(RowsOf(r)) = 4
      /\ Summary(r) =
            {<<VALIDATION, COMPLETED, 25>>,
             <<LANGUAGE_DETECTION, COMPLETED, 50>>,
             <<TRANSLATION,
               IF loc[r].language_result.language = DEFAULT_TARGET_LANGUAGE
               THEN SKIPPED ELSE COMPLETED, 75>>,
             <<PREPROCESSING, COMPLETED, 100>>}
      /\ rec[r].status = COMPLETED

\* a clean run with the translation skipped
C7_Witness ==
  \E r \in Records :
    /\ CleanRun(r)
    /\ loc[r].language_result.language = DEFAULT_TARGET_LANGUAGE
    /\ rec[r].status = COMPLETED

\* the position of a phase in the pipeline
PhaseIndex(phase) ==
  CASE phase = VALIDATION -> 1
    [] phase = LANGUAGE_DETECTION -> 2
    [] phase = TRANSLATION -> 3
    [] phase = PREPROCESSING -> 4

\* the statuses that close a phase so that the next one may start
Closing(phase) == IF phase = TRANSLATION THEN {COMPLETED, SKIPPED} ELSE {COMPLETED}

C9_OneRowPerPhase ==
  \A r \in Records, phase \in ProcessingPhase :
    LET rows == {row \in ledger : row.input_record_id = r /\ row.phase = phase}
    IN /\ Cardinality(rows) <= 1
       /\ rows # {} <=> hist[<<r, phase>>].n > 0
       /\ \A row \in rows : row.started_at = hist[<<r, phase>>].first

\* a pair was upserted more than once and has its single row
C9_Witness ==
  \E r \in Records, phase \in ProcessingPhase :
    /\ hist[<<r, phase>>].n >= 2
    /\ Cardinality({row \in ledger : row.input_record_id = r /\ row.phase = phase}) = 1

\* C10: after two upsertPhase calls with status completed for the same
\* (record, phase) there is exactly one row, its started_at is the time of the
\* first call, its completed_at the time of the last call, and its duration
\* equals completed_at minus started_at (in whole seconds)
C10_DurationOfTwoCompleted ==
  \A r \in Records, phase \in ProcessingPhase :
    (hist[<<r, phase>>].n = 2 /\ hist[<<r, phase>>].statuses = {COMPLETED}) =>
      /\ Cardinality(PhaseRows(r, phase)) = 1
      /\ \A row \in PhaseRows(r, phase) :
            /\ row.started_at = hist[<<r, phase>>].first
            /\ row.completed_at = hist[<<r, phase>>].last
            /\ row.duration_seconds =
                 (row.completed_at - row.started_at) \div TicksPerSecond

\* what a reader sees of a ledger row, timestamps aside
Visible(row) ==
  [status |-> row.status, progress_percentage |-> row.progress_percentage,
   phase_data |-> row.phase_data, error_message |-> row.error_message,
   error_details |-> row.error_details, completed |-> row.completed_at # NoneT]

\* the ledger after the calls of sessions x and then y executed one after the other
SerialLedger(x, y) ==
  LET first == StatusRepositoryUpdate({}, 1, x.phase, x.args.status, x.args.progress_percentage, x.args.phase_data, x.args.error_message, x.args.error_details, TRUE, 0, 0).ledger
  IN StatusRepositoryUpdate(first, 1, y.phase, y.args.status, y.args.progress_percentage, y.args.phase_data, y.args.error_message, y.args.error_details, TRUE, 0, 0).ledger

\* both sessions called for the same pair and both calls are over, with no
\* database failure other than one the other session's write caused
BothReturned ==
  /\ \A c \in Callers : inflight[c].pc = "done" /\ inflight[c].raised # "DatabaseError"
  /\ inflight["A"].phase = inflight["B"].phase

\* C11: two concurrent upsertPhase calls on the same (record, phase) that has no
\* row yet leave exactly one row for the pair, equal to the effect of the two
\* calls executed in some serial order
C11_ConcurrentUpsertsSerialize ==
  BothReturned =>
    LET rows == PhaseRows(1, inflight["A"].phase) IN
    /\ Cardinality(rows) = 1
    /\ \/ {Visible(row) : row \in rows}
            = {Visible(row) : row \in SerialLedger(inflight["A"], inflight["B"])}
       \/ {Visible(row) : row \in rows}
            = {Visible(row) : row \in SerialLedger(inflight["B"], inflight["A"])}

\* the ledger a run's own successful ledger writes produce when nothing else
\* writes: the events of trace t replayed, in order, on ledger led
RECURSIVE ReplayLedger(_, _, _)
ReplayLedger(r, t, led) ==
  IF t = <<>> THEN led
  ELSE LET e == Head(t)
           next == IF e.op = "upsert" /\ e.ok
                   THEN StatusRepositoryUpdate(led, r, e.phase, e.status, e.progress_percentage, NoData, NoneS, NoData, TRUE, 0, 0).ledger
                   ELSE led
       IN ReplayLedger(r, Tail(t), next)

\* the record status a run's own successful record writes produce
ReplayStatus(r) ==
  IF \E i \in DOMAIN trace[r] :
       trace[r][i].op = "record" /\ trace[r][i].what = "input record status" /\ trace[r][i].ok
  THEN (IF loc[r].exc = NoExc THEN COMPLETED ELSE FAILED)
  ELSE PENDING

\* the rows and the status of record r are those its own run produces alone
AsAlone(r) ==
  /\ Summary(r) = {<<row.phase, row.status, row.progress_percentage>> :
                     row \in ReplayLedger(r, trace[r], {})}
  /\ Cardinality(RowsOf(r)) = Cardinality(ReplayLedger(r, trace[r], {}))
  /\ rec[r].status = ReplayStatus(r)

\* a step leaves the record and the rows of every record whose run did not
\* take it as they were
OthersUntouched ==
  \A o \in Records :
    pc'[o] = pc[o] => (rec'[o] = rec[o] /\ RowsOf(o)' = RowsOf(o))

\* C12: a ledger operation issued for record r leaves the ContentRecord and the
\* PhaseStatus rows of every other record unchanged, and under any interleaving
\* of runs on distinct records each record's rows and status equal those of
\* its run executed alone
C12_CrossRecordIsolation ==
  [](\A r \in Records : AsAlone(r)) /\ [][OthersUntouched]_vars

\* two runs have interleaved and returned, one completed and one failed
C12_Witness ==
  /\ Returned(1) /\ Returned(NumRecords)
  /\ rec[1].status = COMPLETED /\ rec[NumRecords].status = FAILED
  /\ Cardinality(RowsOf(1)) = 4 /\ RowsOf(NumRecords) # {}

\* the resolution made is a translation / a language detection that found
\* nothing usable in the cache (no entry, or the read failed)
TranslationKey == <<"translation", Hash(resolution.text), resolution.source_language, resolution.target_language>>
LanguageKey == <<"lang_detect", Hash(resolution.text)>>
CacheHit(key) == resolution.getOk /\ \E e \in resolution.before : e.key = key
TranslationMiss == resolution.kind = "translation" /\ ~CacheHit(TranslationKey)
LanguageMiss == resolution.kind = "language" /\ ~CacheHit(LanguageKey)

\* the providers whose attempt function the resolution invoked, in call order
IsAttempt(e) == e.name = "translate"
Attempts == SelectSeq(resolution.events, IsAttempt)

\* the configured priority: Google first, then the fallback
Priority(provider) == IF provider = "google_translate" THEN 1 ELSE 2

\* the provider's credentials are configured / its attempt succeeds when made
Configured(provider) ==
  IF provider = "google_translate" THEN config.google_api_key ELSE config.nllb
Succeeds(provider) == Configured(provider) /\ ~resolution.out[provider].raised

\* the result provider p's attempt produces in the resolution made
ResultOf(provider) ==
  TranslationResult(resolution.text, resolution.source_language,
                    resolution.target_language, provider, resolution.out[provider])

\* C13: in one translation resolution providers are attempted strictly in
\* priority order (Google, then the fallback), each at most once; the result is
\* that of the first provider whose attempt succeeds, and no provider ranked
\* after it is invoked
C13_PriorityOrder ==
  TranslationMiss =>
    /\ \A i, j \in DOMAIN Attempts :
          i < j => Priority(Attempts[i].provider) < Priority(Attempts[j].provider)
    /\ \A i \in DOMAIN Attempts :
          resolution.out[Attempts[i].provider].raised <=>
            (i < Len(Attempts) \/ resolution.raised)
    /\ \A p \in DOMAIN resolution.out :
          (Succeeds(p) /\ \A q \in DOMAIN resolution.out :
                            Priority(q) < Priority(p) => ~Succeeds(q)) =>
            /\ ~resolution.raised
            /\ resolution.result = ResultOf(p)
            /\ Attempts # <<>> /\ Attempts[Len(Attempts)].provider = p

\* Google's attempt succeeded while the fallback was available too: Google's
\* result was returned and the fallback was not invoked
C13_Witness ==
  /\ TranslationMiss
  /\ Succeeds("google_translate") /\ Succeeds("nllb_200")
  /\ resolution.result = ResultOf("google_translate")
  /\ Len(Attempts) = 1

\* provider p's attempt succeeds with a confidence at or above the threshold
Accepted(provider) ==
  Succeeds(provider)
    /\ resolution.out[provider].confidence >= TRANSLATION_CONFIDENCE_THRESHOLD

ChainWith(provider, o) ==
  translate_with_fallback(1, resolution.text, resolution.source_language, resolution.target_language, config, [resolution.out EXCEPT ![provider] = o], <<>>)
ChainAfterFirst ==
  translate_with_fallback(2, resolution.text, resolution.source_language, resolution.target_language, config, resolution.out, <<>>)

\* C15: a provider whose availability predicate is false is skipped: its
\* attempt function is never invoked, and resolution goes on with the next
\* provider as if the skipped provider were not in the list
C15_UnavailableIsSkipped ==
  TranslationMiss =>
    \A p \in DOMAIN resolution.out :
      ~Configured(p) =>
        /\ \A i \in DOMAIN Attempts : Attempts[i].provider # p
        /\ \A o \in GoogleTranslateOutcomes \cup NLLBOutcomes :
              /\ ChainWith(p, o).raised = resolution.raised
              /\ ChainWith(p, o).result = resolution.result
        /\ p = Providers[1] =>
              /\ ChainAfterFirst.raised = resolution.raised
              /\ ChainAfterFirst.result = resolution.result

\* Google was not configured: it was not attempted and the fallback's result
\* was returned
C15_Witness ==
  /\ TranslationMiss
  /\ ~Configured("google_translate")
  /\ Succeeds("nllb_200")
  /\ Len(Attempts) = 1 /\ Attempts[1].provider = "nllb_200"
  /\ resolution.result = ResultOf("nllb_200")

\* the entry the cache held for a key when the resolution started
EntryBefore(key) == CHOOSE e \in resolution.before : e.key = key

\* the resolution's result answers the request that was made
AnswersRequest ==
  /\ resolution.result.original_text = resolution.text
  /\ resolution.result.source_language = resolution.source_language
  /\ resolution.result.target_language = resolution.target_language

\* C16: translation never fabricates a result: when every provider is
\* unavailable or raises, translate_text raises TranslationError and returns
\* nothing; a result that is returned answers the same (text, source, target)
\* and is either the one a configured provider's attempt produced in this call
\* or the one read from the cache entry of that key
C16_NeverFabricates ==
  resolution.kind = "translation" =>
    /\ (TranslationMiss /\ \A p \in DOMAIN resolution.out : ~Succeeds(p)) =>
          /\ resolution.raised
          /\ resolution.result = NoData
          /\ cache = resolution.before
    /\ ~resolution.raised =>
          /\ AnswersRequest
          /\ \/ /\ CacheHit(TranslationKey)
                /\ resolution.result = ParseRaw(EntryBefore(TranslationKey).value)
             \/ /\ TranslationMiss
                /\ \E i \in DOMAIN Attempts :
                      /\ Succeeds(Attempts[i].provider)
                      /\ resolution.result = ResultOf(Attempts[i].provider)

\* both providers were configured, both attempts raised, and the call raised
C16_Witness ==
  /\ TranslationMiss
  /\ Len(Attempts) = 2
  /\ \A p \in DOMAIN resolution.out : ~Succeeds(p)
  /\ resolution.raised

\* the detection methods that answered in the resolution made: langdetect and
\* langid are always tried on a miss, Google only with an API key
Answered ==
  {m \in DOMAIN resolution.out :
     /\ ~resolution.out[m].raised
     /\ m = "google" => config.google_api_key}

\* C17: detect_language always returns a LanguageDetectionResult, whatever the
\* methods and the cache do (a cache read failure is a miss, a write failure is
\* swallowed); when no method answers it returns the hardcoded default: "en"
\* with confidence 0.5, marked unreliable, and caches nothing
C17_AlwaysALanguage ==
  resolution.kind = "language" =>
    /\ ~resolution.raised
    /\ resolution.result.language \in Langs
    /\ resolution.result.confidence \in Int
    /\ resolution.result.is_reliable \in BOOLEAN
    /\ (LanguageMiss /\ Answered = {}) =>
          /\ resolution.result = [language |-> "en", confidence |-> 50, is_reliable |-> FALSE]
          /\ cache = resolution.before

\* langdetect and langid raised, Google was configured and raised too, the
\* cache could not be read, and the default came back
C17_Witness ==
  /\ resolution.kind = "language"
  /\ ~resolution.getOk
  /\ config.google_api_key
  /\ Answered = {}
  /\ Len(resolution.events) = 4
  /\ resolution.result.language = "en"
  /\ ~resolution.result.is_reliable

\* the answers below the threshold, and the best of them
SubThreshold ==
  {m \in Answered :
     resolution.out[m].confidence < LANGUAGE_DETECTION_CONFIDENCE_THRESHOLD}
BestSoFar ==
  CHOOSE m \in SubThreshold :
    \A n \in SubThreshold : resolution.out[n].confidence <= resolution.out[m].confidence

\* C18: when no method's answer reaches the threshold but some method answered
\* below it, detect_language returns the answer with the highest confidence
\* among those, marked unreliable, not the hardcoded default
C18_BestSoFarIsReturned ==
  (LanguageMiss /\ SubThreshold # {} /\ SubThreshold = Answered) =>
    /\ resolution.result.language = resolution.out[BestSoFar].language
    /\ resolution.result.confidence = resolution.out[BestSoFar].confidence
    /\ ~resolution.result.is_reliable

\* C19: translation applies TRANSLATION_CONFIDENCE_THRESHOLD: a provider's
\* result below the threshold is not returned, and the call raises when no
\* available provider succeeds with a confidence at or above it
C19_TranslationThreshold ==
  TranslationMiss =>
    /\ ~resolution.raised =>
          resolution.result.confidence >= TRANSLATION_CONFIDENCE_THRESHOLD
    /\ (\A p \in DOMAIN resolution.out : ~Accepted(p)) => resolution.raised

\* the key of the resolution made, and the only call a hit makes
ResolutionKey ==
  IF resolution.kind = "translation" THEN TranslationKey ELSE LanguageKey
CacheGetOnly ==
  IF resolution.kind = "translation"
  THEN <<Call("tr_cache_get")>>
  ELSE <<Call("ld_cache_get")>>

\* C20: when the cache holds an entry for the key of the call (the text for
\* language detection; text, source and target for translation), the call
\* returns the parsed entry, makes no provider call (no availability check, no
\* attempt) and writes nothing to the cache
C20_CacheHit ==
  (resolution.kind \in {"translation", "language"} /\ CacheHit(ResolutionKey)) =>
    /\ ~resolution.raised
    /\ resolution.result = ParseRaw(EntryBefore(ResolutionKey).value)
    /\ resolution.events = CacheGetOnly
    /\ cache = resolution.before

\* a translation was answered from the cache although Google was configured
\* and would have translated
C20_Witness ==
  /\ resolution.kind = "translation"
  /\ CacheHit(TranslationKey)
  /\ Succeeds("google_translate")
  /\ resolution.result.method = "google_translate"
  /\ Len(resolution.events) = 1

\* the resolution made missed the cache and a provider's result was accepted:
\* a translator succeeded, or a detection method answered at or above the
\* threshold (Google's answer is taken whatever its confidence)
ProviderAccepted ==
  \/ TranslationMiss /\ \E p \in DOMAIN resolution.out : Succeeds(p)
  \/ LanguageMiss /\ \E m \in Answered :
        \/ m = "google"
        \/ resolution.out[m].confidence >= LANGUAGE_DETECTION_CONFIDENCE_THRESHOLD

\* the cache writes of the resolution made, and the TTL of its kind
IsCacheSet(e) == e.name \in {"tr_cache_set", "ld_cache_set"}
CacheSets == SelectSeq(resolution.events, IsCacheSet)
TtlOfKind ==
  IF resolution.kind = "translation"
  THEN CACHE_TTL_TRANSLATION
  ELSE CACHE_TTL_LANGUAGE_DETECTION

\* what a later call for the same key returns, whatever the providers do then
LaterLookups ==
  IF resolution.kind = "translation"
  THEN {translate_text(resolution.text, resolution.source_language, resolution.target_language, cache, config, TRUE, ok, ProviderOutcomes(go, nl)).result : ok \in BOOLEAN, go \in GoogleTranslateOutcomes, nl \in NLLBOutcomes}
  ELSE {detect_language(resolution.text, cache, config, TRUE, ok, ld, li, gg).result : ok \in BOOLEAN, ld \in LangdetectOutcomes, li \in LangidOutcomes, gg \in GoogleDetectOutcomes}

\* C21: a resolution that misses the cache and accepts a provider's result
\* makes exactly one cache write, and the write that goes through stores the
\* serialized result that is returned under the key of the call with the TTL
\* of its kind (the two TTLs are separate settings); a later lookup of that key
\* returns a result equal to the one returned on the miss
C21_MissIsCached ==
  /\ CACHE_TTL_TRANSLATION # CACHE_TTL_LANGUAGE_DETECTION
  /\ ProviderAccepted =>
       /\ Len(CacheSets) = 1
       /\ resolution.setOk =>
            /\ cache = {e \in resolution.before : e.key # ResolutionKey}
                          \cup {[key |-> ResolutionKey, value |-> Json(resolution.result), ttl |-> TtlOfKind]}
            /\ LaterLookups = {resolution.result}
       /\ ~resolution.setOk => cache = resolution.before

\* a language was detected by langid on a miss and stored for 1800 seconds
C21_Witness ==
  /\ ProviderAccepted
  /\ resolution.kind = "language"
  /\ resolution.setOk
  /\ resolution.out["langdetect"].raised
  /\ \E e \in cache :
       /\ e.key = LanguageKey
       /\ e.ttl = 1800
       /\ ParseRaw(e.value) = LanguageDetectionResult(resolution.out["langid"])

\* what the call of the resolution made returns with an empty cache that works:
\* [raised, result]
WorkingEmptyCache ==
  IF resolution.kind = "translation"
  THEN LET r == translate_text(resolution.text, resolution.source_language, resolution.target_language, {}, config, TRUE, TRUE, resolution.out)
       IN [raised |-> r.raised, result |-> r.result]
  ELSE LET r == detect_language(resolution.text, {}, config, TRUE, TRUE, resolution.out["langdetect"], resolution.out["langid"], resolution.out["google"])
       IN [raised |-> FALSE, result |-> r.result]

\* the cache read of the resolution made failed, or its cache write did
CacheFailed ==
  /\ resolution.kind \in {"translation", "language"}
  /\ \/ ~resolution.getOk
     \/ Len(CacheSets) > 0 /\ ~resolution.setOk

\* C22: cache failures never affect correctness: a call whose cache read fails
\* (it counts as a miss) or whose cache write fails returns exactly the result,
\* or raises exactly as, the same call with an empty working cache, and a
\* failed read leaves the cache untouched unless the later write goes through
C22_CacheFailuresAreHarmless ==
  CacheFailed =>
    /\ resolution.raised = WorkingEmptyCache.raised
    /\ resolution.result = WorkingEmptyCache.result
    /\ ~resolution.setOk => cache = resolution.before

\* the cache held an entry for the call but could be neither read nor written,
\* and the fallback translator's result came back
C22_Witness ==
  /\ resolution.kind = "translation"
  /\ ~resolution.getOk /\ ~resolution.setOk
  /\ \E e \in resolution.before : e.key = TranslationKey
  /\ ~resolution.raised
  /\ resolution.result.method = "nllb_200"
  /\ Len(CacheSets) = 1

\* both concurrent calls are over, and the key they share
Resolved(c) == inflight[c].pc \in {"returned", "raised"}
BothResolved == \A c \in Callers : Resolved(c)
RaceKey == CacheKey(inflight["A"].req)

\* what a call does alone on an empty working cache with the provider
\* outcomes it met: [raised, result]
AloneOutcome(c) ==
  LET req == inflight[c].req
      out == inflight[c].out
  IN IF req.kind = "translation"
     THEN LET r == translate_text(req.text, req.source_language, req.target_language, {}, config, TRUE, TRUE, out)
          IN [raised |-> r.raised, result |-> r.result]
     ELSE LET r == detect_language(req.text, {}, config, TRUE, TRUE, out["langdetect"], out["langid"], out["google"])
          IN [raised |-> FALSE, result |-> r.result]

\* the results the providers can produce for a request
ProviderResults(req) ==
  IF req.kind = "translation"
  THEN {TranslationResult(req.text, req.source_language, req.target_language, "google_translate", o) : o \in GoogleTranslateOutcomes \ {Raises}}
       \cup {TranslationResult(req.text, req.source_language, req.target_language, "nllb_200", o) : o \in NLLBOutcomes \ {Raises}}
  ELSE {LanguageDetectionResult(o) : o \in (LangdetectOutcomes \cup LangidOutcomes \cup GoogleDetectOutcomes) \ {Raises}}

\* the results the two calls returned, and the entries of their key
ReturnedResults == {inflight[c].result : c \in {d \in Callers : ~inflight[d].raised}}
RaceEntries == {e \in cache : e.key = RaceKey}

\* each call returns what a provider produced for the request, and fails (or
\* falls back to the default language) only as it would alone
EachCallUnharmed ==
  \A c \in Callers :
    IF inflight[c].hit
    THEN /\ ~inflight[c].raised
         /\ inflight[c].result \in ProviderResults(inflight[c].req)
    ELSE /\ inflight[c].raised = AloneOutcome(c).raised
         /\ inflight[c].result = AloneOutcome(c).result
         /\ ~inflight[c].raised =>
              inflight[c].result \in ProviderResults(inflight[c].req) \cup {DefaultLanguageResult}

\* C23 as stated: for every interleaving of two concurrent resolutions of one
\* key, each call returns a result a provider produced for the input, neither
\* fails because of the other, and afterwards the cache entry of the key is
\* absent or equal to the result one of the two calls returned
C23_RaceEntryIsAReturnedResult ==
  BothResolved =>
    /\ EachCallUnharmed
    /\ \A e \in RaceEntries : ParseRaw(e.value) \in ReturnedResults

\* C23 amended: as stated, except that afterwards the cache entry of the key is
\* absent, equal to the result one of the two calls returned, or still the
\* entry the cache held when the calls were made
C23_RaceIsBenign ==
  BothResolved =>
    /\ EachCallUnharmed
    /\ \A e \in RaceEntries :
         \/ ParseRaw(e.value) \in ReturnedResults
         \/ e \in inflight["A"].before

\* both calls missed, both got a result from a provider, the results differ and
\* the cache holds one of them
C23_Witness ==
  /\ BothResolved
  /\ \A c \in Callers : ~inflight[c].hit /\ ~inflight[c].raised
  /\ inflight["A"].req.kind = "translation"
  /\ inflight["A"].result # inflight["B"].result
  /\ \E e \in RaceEntries : ParseRaw(e.value) = inflight["A"].result

\* the run of record r is over: it returned, or an exception left it
Over(r) == pc[r] \in {"done", "escaped"}

\* the last write the run of record r issued was rejected by the database
LastWriteFailed(r) ==
  /\ trace[r] # <<>>
  /\ trace[r][Len(trace[r])].op \in {"upsert", "record"}
  /\ ~trace[r][Len(trace[r])].ok

\* C24: on an unexpected failure the run always attempts the failure write
\* (the failed row of the handler), and when that write or the finalize after
\* it is rejected, the error reaches the caller of the run instead of being dropped
C24_FailedTerminalWriteSurfaces ==
  \A r \in Records :
    (Over(r) /\ loc[r].exc # NoExc) =>
      /\ \E i \in UpsertsAt(r) :
            /\ trace[r][i].phase = VALIDATION
            /\ trace[r][i].status = FAILED
            /\ trace[r][i].progress_percentage = 0
      /\ LastWriteFailed(r) => pc[r] = "escaped"

\* some ledger or record write of the run of record r was rejected
SomeWriteFailed(r) ==
  \E i \in DOMAIN trace[r] :
    trace[r][i].op \in {"upsert", "record"} /\ ~trace[r][i].ok

\* C25: only persistence errors leave the run: when no ledger or record write
\* was rejected, whatever the validator, the providers, the cache (obtaining
\* its connection included) and the normalizer did, the run returns normally
C25_OnlyPersistenceErrorsEscape ==
  \A r \in Records : pc[r] = "escaped" => SomeWriteFailed(r)

\* C26: the overall progress is the floored integer mean of the progress
\* percentages of the phase entries and 0 when there are none: for values in
\* 0..100 the result r satisfies r * count <= sum < (r + 1) * count and lies in
\* 0..100; the empty list gives 0 and [25, 50] gives 37
C26_FlooredMean ==
  resolution.kind = "overall_progress" =>
    LET phases == resolution.phases
        r == resolution.result
    IN /\ r \in 0..100
       /\ phases = <<>> => r = 0
       /\ phases # <<>> =>
            /\ r * Len(phases) <= TotalProgress(phases)
            /\ TotalProgress(phases) < (r + 1) * Len(phases)
       /\ phases = <<PhaseEntry(25), PhaseEntry(50)>> => r = 37

\* the overall progress of [25, 50] was computed to be 37
C26_Witness ==
  /\ resolution.kind = "overall_progress"
  /\ resolution.phases = <<PhaseEntry(25), PhaseEntry(50)>>
  /\ resolution.result = 37

\* the checkpoint of a phase
Checkpoint(phase) ==
  CASE phase = VALIDATION -> 25
    [] phase = LANGUAGE_DETECTION -> 50
    [] phase = TRANSLATION -> 75
    [] phase = PREPROCESSING -> 100

\* C27: checkpoints are fixed: in every reachable state of a run a row that is
\* completed or skipped carries the checkpoint of its phase (25, 50, 75, 100),
\* whatever the input and the collaborators' results, and the progress of every
\* row lies in 0..100
C27_FixedCheckpoints ==
  \A row \in ledger :
    /\ row.progress_percentage \in 0..100
    /\ row.status \in {COMPLETED, SKIPPED} =>
         row.progress_percentage = Checkpoint(row.phase)

\* a run that skipped translation ended with all four rows at their checkpoints
C27_Witness ==
  \E r \in Records :
    /\ Returned(r)
    /\ \A phase \in ProcessingPhase :
         \E row \in PhaseRows(r, phase) :
           /\ row.status = IF phase = TRANSLATION THEN SKIPPED ELSE COMPLETED
           /\ row.progress_percentage = Checkpoint(phase)

\* the label the run gives to finalize with each outcome
FinalizeLabel(status) ==
  IF status = COMPLETED THEN "preprocessing_complete" ELSE "pipeline_error"

\* C28: finalize sets the record's status to the outcome, its current_phase to
\* the given label and its processed_at, for both outcomes: a record finalized
\* as completed and a record finalized as failed both have processed_at set
C28_FinalizeSetsProcessedAt ==
  \A r \in Records :
    rec[r].status \in {COMPLETED, FAILED} =>
      /\ rec[r].current_phase = FinalizeLabel(rec[r].status)
      /\ rec[r].updated_at # NoneT
      /\ rec[r].processed_at # NoneT

\* the values of a row that an upsertPhase call supplies
Supplied(row) ==
  [status |-> row.status, progress_percentage |-> row.progress_percentage,
   phase_data |-> row.phase_data, error_message |-> row.error_message,
   error_details |-> row.error_details]

\* C29: upsertPhase overwrites status, progress, phase data and error of an
\* existing row with the values of the call, so after any sequence of calls a
\* row carries the values of one call (the last one on it): an error or phase
\* data of an earlier call does not survive a later call that supplies none
C29_UpsertOverwritesInPlace ==
  \A row \in ledger : Supplied(row) \in CallArgs

\* C30: phase results are on the record before the phase is marked completed:
\* in every reachable state, when the language_detection row is completed the
\* record's detected language and (stringified) confidence are those of the
\* result in the row's phase data, and when the translation row is completed
\* the record's translation summary is the translation in the row's phase data
C30_ResultsPersistedBeforeCompleted ==
  \A r \in Records :
    /\ \A row \in PhaseRows(r, LANGUAGE_DETECTION) :
         row.status = COMPLETED =>
           /\ row.phase_data.kind = "language_result"
           /\ rec[r].detected_language = row.phase_data.of.language
           /\ rec[r].language_confidence = [str |-> row.phase_data.of.confidence]
    /\ \A row \in PhaseRows(r, TRANSLATION) :
         row.status = COMPLETED =>
           /\ row.phase_data.kind = "translation_result"
           /\ rec[r].translation_result = [kind |-> "translation_result", of |-> row.phase_data.of]

\* a run detected Hindi, had it translated by the fallback and marked both
\* phases completed
C30_Witness ==
  \E r \in Records :
    /\ \E row \in PhaseRows(r, LANGUAGE_DETECTION) :
         row.status = COMPLETED /\ rec[r].detected_language = "hi"
    /\ \E row \in PhaseRows(r, TRANSLATION) :
         /\ row.status = COMPLETED
         /\ rec[r].translation_result # NoData
         /\ rec[r].translation_result.of.method = "nllb_200"

\* the normalizer calls of the run of record r
NormalizerCalls(r) == {i \in CallsAt(r) : trace[r][i].name = "preprocess_text"}

\* C31: preprocessing runs on whichever text is available: a run that passed
\* validation and lost no ledger or record write invokes the normalizer exactly
\* once, on the translated text if and only if the translation phase completed,
\* and on the original text when translation was skipped or failed
C31_NormalizerRunsOnce ==
  \A r \in Records :
    (Returned(r) /\ Valid(r) /\ ~SomeWriteFailed(r)) =>
      /\ Cardinality(NormalizerCalls(r)) = 1
      /\ \A i \in NormalizerCalls(r) :
           IF \E row \in PhaseRows(r, TRANSLATION) : row.status = COMPLETED
           THEN trace[r][i].text = loc[r].translation_result.translated_text
           ELSE trace[r][i].text = loc[r].text

\* the phase the run of record r was in when it failed: the phase of the last
\* row it marked processing
FailedPhase(r) ==
  LET begun == {i \in UpsertsAt(r) : trace[r][i].status = PROCESSING}
  IN trace[r][CHOOSE i \in begun : \A j \in begun : j <= i].phase

\* C32: failure attribution: when a run fails in phase p (a collaborator
\* raised; no ledger or record write was rejected), the failed status and the
\* error are on the row of phase p, the rows of the phases completed before keep
\* status completed with their checkpoint, and after the run has returned no row
\* of the record is in status processing
C32_FailureAttribution ==
  \A r \in Records :
    (Returned(r) /\ loc[r].exc # NoExc /\ ~SomeWriteFailed(r)) =>
      /\ \E row \in PhaseRows(r, FailedPhase(r)) :
            row.status = FAILED /\ TruthyStr(row.error_message)
      /\ \A row \in RowsOf(r) :
            PhaseIndex(row.phase) < PhaseIndex(FailedPhase(r)) =>
              /\ row.status \in {COMPLETED, SKIPPED}
              /\ row.progress_percentage = Checkpoint(row.phase)
      /\ \A row \in RowsOf(r) : row.status # PROCESSING

\* ------------------------------------------------------------ status reads

\* ORDER BY created_at DESC LIMIT 1 of StatusRepository.get_latest_status:
\* created_at is stamped when the row is inserted and never changed, so the
\* row picked is the one of the record inserted last
LatestCreated(led, input_id) ==
  LET rows == {row \in led : row.input_record_id = input_id}
  IN CHOOSE row \in rows : \A other \in rows : other.id[2] <= row.id[2]

\* StatusRepository.get_latest_status: None without a row, else the snapshot
\* built from the row created last
get_latest_status(led, input_id) ==
  IF {row \in led : row.input_record_id = input_id} = {}
  THEN NoData
  ELSE LET status == LatestCreated(led, input_id)
       IN [input_id |-> input_id,
           status |-> status.status,
           current_phase |-> status.phase,
           progress_percentage |-> status.progress_percentage,
           phase_data |-> status.phase_data,
           error_message |-> status.error_message,
           error_details |-> status.error_details]

\* the run of record r failed: the input was invalid or something raised
RunFailed(r) == Invalid(r) \/ loc[r].exc # NoExc

\* C33: polling reflects the terminal outcome: once a run has returned (no
\* write of it rejected, no cached summary served), get_latest_status returns
\* completed at 100 if the record was finalized completed and failed if the
\* run failed in any phase, never a snapshot in a non-terminal status
C33_PollingReflectsOutcome ==
  \A r \in Records :
    (Returned(r) /\ ~SomeWriteFailed(r)) =>
      LET snapshot == get_latest_status(ledger, r)
      IN /\ snapshot # NoData
         /\ rec[r].status = "completed" =>
              snapshot.status = COMPLETED /\ snapshot.progress_percentage = 100
         /\ RunFailed(r) => snapshot.status = FAILED
         /\ snapshot.status \in {COMPLETED, FAILED}

\* C34: a record whose status is completed has a row for each of the four
\* phases: validation completed at 25, language_detection completed at 50,
\* translation completed or skipped at 75, preprocessing completed at 100; none
\* of its rows is failed or processing
C34_CompletedImpliesAllPhases ==
  \A r \in Records :
    rec[r].status = COMPLETED =>
      /\ {row.phase : row \in RowsOf(r)} = {VALIDATION, LANGUAGE_DETECTION, TRANSLATION, PREPROCESSING}
      /\ \A row \in RowsOf(r) :
            /\ row.status \notin {FAILED, PROCESSING}
            /\ row.phase = TRANSLATION => row.status \in {COMPLETED, SKIPPED}
            /\ row.phase # TRANSLATION => row.status = COMPLETED
            /\ row.progress_percentage = Checkpoint(row.phase)

\* a record finalized completed whose translation was carried out
C34_Witness ==
  \E r \in Records :
    /\ rec[r].status = COMPLETED
    /\ Returned(r)
    /\ \E row \in PhaseRows(r, TRANSLATION) : row.status = COMPLETED

\* InputStorageService.get_processing_status of the storage facade on a cache
\* miss: the answer of the repository (storing it in the cache changes nothing
\* of it)
get_processing_status(led, input_id) == get_latest_status(led, input_id)

\* InputStorageService.get_complete_processing_status on a cache miss: None
\* when the record has no row, else every row with the head fields of the one
\* created last
get_complete_processing_status(led, input_id) ==
  LET all_statuses == {row \in led : row.input_record_id = input_id}
  IN IF all_statuses = {}
     THEN NoData
     ELSE [input_id |-> input_id,
           status |-> LatestCreated(led, input_id).status,
           current_phase |-> LatestCreated(led, input_id).phase,
           progress_percentage |-> LatestCreated(led, input_id).progress_percentage,
           phases |-> all_statuses]

\* the answer of GET /status/{input_id}: 404 when the service returns None
StatusEndpoint(led, input_id, detailed) ==
  LET status == IF detailed THEN get_complete_processing_status(led, input_id)
                            ELSE get_processing_status(led, input_id)
  IN IF status = NoData THEN [code |-> 404, body |-> NoData]
                        ELSE [code |-> 200, body |-> status]

\* C35: a created record can be polled at any time: from its creation onward
\* the latest-status read and the full-status read each return a snapshot, and
\* not-found is answered only for ids that were never created
C35_CreatedRecordCanBePolled ==
  \A r \in DOMAIN rec :
    \A detailed \in BOOLEAN : StatusEndpoint(ledger, r, detailed).code = 200

\* the resolution made found nothing usable in the cache and no provider
\* produced a result: every translator was skipped or raised, every detection
\* method raised or was rejected
TotalFailure ==
  /\ resolution.kind \in {"translation", "language"}
  /\ ~CacheHit(ResolutionKey)
  /\ ~ProviderAccepted

\* the calls a later resolution of the same key makes while cache reads work,
\* whatever the providers do then
LaterEvents ==
  IF resolution.kind = "translation"
  THEN {translate_text(resolution.text, resolution.source_language, resolution.target_language, cache, config, TRUE, ok, ProviderOutcomes(go, nl)).events : ok \in BOOLEAN, go \in GoogleTranslateOutcomes, nl \in NLLBOutcomes}
  ELSE {detect_language(resolution.text, cache, config, TRUE, ok, ld, li, gg).events : ok \in BOOLEAN, ld \in LangdetectOutcomes, li \in LangidOutcomes, gg \in GoogleDetectOutcomes}

\* C36: the cache only ever holds results a provider produced: an entry a
\* resolution adds is the result a provider returned for that request, the
\* default language answer is never an entry, and a resolution in which every
\* provider failed (default answer, or exhausted translation) writes nothing,
\* so that a later call for the key goes to the providers again
C36_OnlyProviderResultsAreCached ==
  resolution.kind \in {"translation", "language"} =>
    /\ \A e \in cache \ resolution.before :
          /\ ProviderAccepted
          /\ e.key = ResolutionKey
          /\ ParseRaw(e.value) = resolution.result
          /\ ParseRaw(e.value) \in ProviderResults(resolution)
    /\ \A e \in cache : ParseRaw(e.value) # DefaultLanguageResult
    /\ TotalFailure =>
          /\ cache = resolution.before
          /\ Len(CacheSets) = 0
          /\ resolution.kind = "language" => resolution.result = DefaultLanguageResult
          /\ resolution.kind = "translation" => resolution.raised
          /\ (\A e \in cache : e.key # ResolutionKey) =>
                \A ev \in LaterEvents : Len(ev) > 1 /\ ev # CacheGetOnly

\* every detection method failed on a text the cache had no entry for, while
\* cache reads and writes worked
C36_Witness ==
  /\ TotalFailure
  /\ resolution.kind = "language"
  /\ resolution.getOk /\ resolution.setOk
  /\ resolution.result = DefaultLanguageResult
  /\ \A e \in cache : e.key # ResolutionKey

\* C37: for any sequence of upsertPhase calls a row has completed_at and
\* duration_seconds set exactly when its current status is completed: a row
\* inserted with status completed has them, and a completed row overwritten
\* with another status keeps no stale values
C37_CompletionFieldsFollowStatus ==
  \A row \in ledger :
    /\ row.status = COMPLETED =>
         row.completed_at # NoneT /\ row.duration_seconds # NoneT
    /\ row.status # COMPLETED =>
         row.completed_at = NoneT /\ row.duration_seconds = NoneT

\* ---------------------------------------------------- status summary cache

\* the key of the cached status summary of a record
StatusSummaryKey(input_id) == <<"status_summary", input_id>>

\* CacheManager.get_cached_status_summary: the stored summary, None on a miss
get_cached_status_summary(c, input_id) ==
  IF \E e \in c : e.key = StatusSummaryKey(input_id)
  THEN (CHOOSE e \in c : e.key = StatusSummaryKey(input_id)).value
  ELSE NoData

\* CacheManager.cache_status_summary: store the summary under the record's key
cache_status_summary(c, input_id, summary) ==
  {e \in c : e.key # StatusSummaryKey(input_id)}
    \cup {[key |-> StatusSummaryKey(input_id), value |-> summary]}

\* CacheManager.invalidate_status_summary: delete the record's summary
invalidate_status_summary(c, input_id) ==
  {e \in c : e.key # StatusSummaryKey(input_id)}

\* the first ledger writes of a pipeline run, in order (pipeline.py 54-77)
PipelineWrites ==
  <<[phase |-> VALIDATION, status |-> PROCESSING, progress_percentage |-> 10],
    [phase |-> VALIDATION, status |-> COMPLETED, progress_percentage |-> 25],
    [phase |-> LANGUAGE_DETECTION, status |-> PROCESSING, progress_percentage |-> 30]>>

\* the pipeline of record 1 as a writer: done counts the update_processing_status
\* calls that have returned, commits lists what the repository answers after
\* each commit
WriterAt(at, done, commits) ==
  [kind |-> "status_writer", pc |-> at, done |-> done, commits |-> commits]

\* a poll of record 1: after is the number of upserts that had returned when
\* it started
PollAt(at, after, found, result) ==
  [pc |-> at, after |-> after, found |-> found, result |-> result]

\* InputStorageService.update_processing_status, first half: status_repo.update
\* commits the row
WriterCommit ==
  /\ resolution.pc = "commit"
  /\ resolution.done < Len(PipelineWrites)
  /\ LET w == PipelineWrites[resolution.done + 1]
         res == StatusRepositoryUpdate(ledger, 1, w.phase, w.status,
                                       w.progress_percentage, NoData, NoneS,
                                       NoData, TRUE, now, now)
     IN /\ ledger' = res.ledger
        /\ resolution' = WriterAt("invalidate", resolution.done,
                                  Append(resolution.commits,
                                         get_latest_status(res.ledger, 1)))
  /\ UNCHANGED <<rec, now, pc, loc, trace, cache, config, hist, inflight>>

\* InputStorageService.update_processing_status, second half: the cached
\* summary is invalidated and the call returns
WriterInvalidate ==
  /\ resolution.pc = "invalidate"
  /\ cache' = invalidate_status_summary(cache, 1)
  /\ resolution' = WriterAt("commit", resolution.done + 1, resolution.commits)
  /\ UNCHANGED <<rec, ledger, now, pc, loc, trace, config, hist, inflight>>

\* InputStorageService.get_processing_status starts: the cache is tried first
\* and a cached summary is returned as it is
PollLookup(c) ==
  /\ inflight[c].pc = "idle"
  /\ LET cached_data == get_cached_status_summary(cache, 1)
     IN inflight' = [inflight EXCEPT ![c] =
                       IF cached_data # NoData
                       THEN PollAt("done", resolution.done, NoData, cached_data)
                       ELSE PollAt("read", resolution.done, NoData, NoData)]
  /\ UNCHANGED <<rec, ledger, now, pc, loc, trace, cache, config, hist, resolution>>

\* get_processing_status on a miss: status_repo.get_latest_status
PollRead(c) ==
  /\ inflight[c].pc = "read"
  /\ LET status_response == get_processing_status(ledger, 1)
     IN inflight' = [inflight EXCEPT ![c] =
                       IF status_response = NoData
                       THEN PollAt("done", @.after, NoData, NoData)
                       ELSE PollAt("fill", @.after, status_response, NoData)]
  /\ UNCHANGED <<rec, ledger, now, pc, loc, trace, cache, config, hist, resolution>>

\* get_processing_status caches what it read and returns it
PollFill(c) ==
  /\ inflight[c].pc = "fill"
  /\ cache' = cache_status_summary(cache, 1, inflight[c].found)
  /\ inflight' = [inflight EXCEPT ![c] =
                    PollAt("done", @.after, @.found, @.found)]
  /\ UNCHANGED <<rec, ledger, now, pc, loc, trace, config, hist, resolution>>

\* one pipeline writes the ledger of record 1 while two clients poll it
StatusCacheInit ==
  /\ now = 0
  /\ InitTables
  /\ pc = [r \in Records |-> "idle"]
  /\ loc = [r \in Records |-> InitLocals(rec[r].raw_input)]
  /\ trace = [r \in Records |-> <<>>]
  /\ cache = {}
  /\ config = [google_api_key |-> FALSE, nllb |-> FALSE, db_faults |-> FALSE]
  /\ inflight = [c \in Callers |-> PollAt("idle", 0, NoData, NoData)]
  /\ resolution = WriterAt("commit", 0, <<>>)

StatusCacheNext ==
  \/ WriterCommit
  \/ WriterInvalidate
  \/ \E c \in Callers : PollLookup(c) \/ PollRead(c) \/ PollFill(c)

SpecStatusCache == StatusCacheInit /\ [][StatusCacheNext]_vars

\* C38: status reads are never stale with respect to completed writes: in
\* every interleaving of the pipeline's upserts (commit, then invalidation of
\* the cached summary) with concurrent polls (cache lookup, database read,
\* cache fill), a poll that started after an upsert had returned answers with
\* the ledger as of that write or a later one
C38_ReadsNeverStale ==
  \A c \in Callers :
    (inflight[c].pc = "done" /\ inflight[c].after > 0) =>
      \E j \in inflight[c].after .. Len(resolution.commits) :
        inflight[c].result = resolution.commits[j]

\* -------------------------------------------------------- input validation

\* settings.MIN_INPUT_LENGTH, settings.MAX_INPUT_LENGTH
MIN_INPUT_LENGTH == 10
MAX_INPUT_LENGTH == 2000

\* a submitted text, by what the checks look at: leading and trailing
\* whitespace characters, the characters in between (core), how many of those
\* are line breaks, whether one character is repeated more than ten times in
\* a row, whether a forbidden keyword occurs, whether a control character other
\* than \n, \t, \r occurs
InputTexts ==
  {text \in [leading : {0, 3}, trailing : {0, 3}, core : {0, 9, 10, 46, 2000, 2001},
             line_breaks : {0, 4, 11}, repeated : BOOLEAN, forbidden : BOOLEAN,
             control : BOOLEAN] :
     /\ text.line_breaks < text.core \/ text.line_breaks = 0
     /\ text.repeated => text.core > 10
     /\ text.forbidden => text.core > 0
     /\ text.control => text.core > 0}

\* len(text) and text.strip()
TextLen(text) == text.leading + text.core + text.trailing
Strip(text) == [text EXCEPT !.leading = 0, !.trailing = 0]

\* InputValidationService._validate_length
validate_length(text) ==
  LET length == TextLen(Strip(text))
  IN IF length < MIN_INPUT_LENGTH
     THEN [is_valid |-> FALSE, errors |-> <<"Text too short">>]
     ELSE IF length > MAX_INPUT_LENGTH
     THEN [is_valid |-> FALSE, errors |-> <<"Text too long">>]
     ELSE [is_valid |-> TRUE, errors |-> <<>>]

\* InputValidationService._validate_format
validate_format(text) ==
  LET e1 == IF TextLen(text) # TextLen(Strip(text))
            THEN <<"Text contains leading or trailing whitespace">> ELSE <<>>
      e2 == IF text.line_breaks > 10
            THEN <<"Text contains too many line breaks">> ELSE <<>>
      e3 == IF text.repeated
            THEN <<"Text contains excessive repeated characters">> ELSE <<>>
      errors == e1 \o e2 \o e3
  IN [is_valid |-> Len(errors) = 0, errors |-> errors]

\* InputValidationService._validate_content_policy (its warnings stay in the
\* check's own dictionary)
validate_content_policy(text) ==
  LET errors == IF text.forbidden THEN <<"Content policy violation">> ELSE <<>>
  IN [is_valid |-> Len(errors) = 0, errors |-> errors]

\* InputValidationService._validate_encoding
validate_encoding(text) ==
  LET errors == IF text.control
                THEN <<"Text contains invalid control characters">> ELSE <<>>
  IN [is_valid |-> Len(errors) = 0, errors |-> errors]

\* the errors a check contributes: errors.extend(check["errors"]) when the
\* check is not valid
Extend(errors, check) == IF ~check.is_valid THEN errors \o check.errors ELSE errors

\* InputValidationService.validate_input
validate_input(text) ==
  LET errors == Extend(Extend(Extend(Extend(<<>>, validate_length(text)),
                                     validate_format(text)),
                              validate_content_policy(text)),
                       validate_encoding(text))
  IN [is_valid |-> Len(errors) = 0,
      errors |-> errors,
      warnings |-> <<>>,
      content_policy_check |-> validate_content_policy(text),
      length_check |-> validate_length(text),
      format_check |-> validate_format(text)]

\* a caller validates a text
ValidateInput ==
  /\ resolution = NoResolution
  /\ \E text \in InputTexts :
       resolution' = [kind |-> "validation", text |-> text,
                      result |-> validate_input(text)]
  /\ UNCHANGED <<rec, ledger, now, pc, loc, trace, cache, config, hist, inflight>>

SpecValidate == ProgressInit /\ [][ValidateInput]_vars

\* the text has leading or trailing whitespace and at most a few line breaks,
\* and passes the length, content-policy and encoding checks
FormatIrregularOnly(text) ==
  /\ text.leading > 0 \/ text.trailing > 0
  /\ text.line_breaks <= 10
  /\ ~text.repeated
  /\ validate_length(text).is_valid
  /\ validate_content_policy(text).is_valid
  /\ validate_encoding(text).is_valid

\* C39: format irregularities are not validation errors: validate_input on a
\* text with leading or trailing whitespace and a few line breaks that passes
\* the length, content-policy and encoding checks returns is_valid true with
\* no errors; in general is_valid is true exactly when the errors list is empty
C39_FormatIssuesAreNotErrors ==
  resolution.kind = "validation" =>
    /\ resolution.result.is_valid <=> resolution.result.errors = <<>>
    /\ FormatIrregularOnly(resolution.text) =>
         resolution.result.is_valid /\ resolution.result.errors = <<>>

====
